---------------------------- MODULE Spec2Model ----------------------------
(***************************************************************************)
(* A model of xsd2proto's conversion engine (internal/converter): the      *)
(* Converter's bookkeeping, the three passes of Convert, the naming        *)
(* functions and the TypeMapper.                                           *)
(*                                                                         *)
(* A Go string is modelled as a sequence of one-character strings, so that *)
(* the case conversions, prefix tests and suffixing are computed character *)
(* by character as the code computes them.  Names are ASCII: for them a    *)
(* byte index (part[:1]) and a rune index agree.                           *)
(***************************************************************************)
EXTENDS Integers, Sequences, FiniteSets, TLC

(***************************************************************************)
(* String literals of the source.                                          *)
(***************************************************************************)
Lit ==
    [
      string                    |-> <<"s", "t", "r", "i", "n", "g">>,
      normalizedString          |-> <<"n", "o", "r", "m", "a", "l", "i", "z", "e", "d", "S", "t", "r", "i", "n", "g">>,
      token                     |-> <<"t", "o", "k", "e", "n">>,
      NMTOKEN                   |-> <<"N", "M", "T", "O", "K", "E", "N">>,
      Name                      |-> <<"N", "a", "m", "e">>,
      NCName                    |-> <<"N", "C", "N", "a", "m", "e">>,
      ID                        |-> <<"I", "D">>,
      IDREF                     |-> <<"I", "D", "R", "E", "F">>,
      boolean                   |-> <<"b", "o", "o", "l", "e", "a", "n">>,
      int                       |-> <<"i", "n", "t">>,
      integer                   |-> <<"i", "n", "t", "e", "g", "e", "r">>,
      short                     |-> <<"s", "h", "o", "r", "t">>,
      byte                      |-> <<"b", "y", "t", "e">>,
      unsignedByte              |-> <<"u", "n", "s", "i", "g", "n", "e", "d", "B", "y", "t", "e">>,
      long                      |-> <<"l", "o", "n", "g">>,
      unsignedInt               |-> <<"u", "n", "s", "i", "g", "n", "e", "d", "I", "n", "t">>,
      float                     |-> <<"f", "l", "o", "a", "t">>,
      double                    |-> <<"d", "o", "u", "b", "l", "e">>,
      decimal                   |-> <<"d", "e", "c", "i", "m", "a", "l">>,
      dateTime                  |-> <<"d", "a", "t", "e", "T", "i", "m", "e">>,
      date                      |-> <<"d", "a", "t", "e">>,
      time                      |-> <<"t", "i", "m", "e">>,
      duration                  |-> <<"d", "u", "r", "a", "t", "i", "o", "n">>,
      anyURI                    |-> <<"a", "n", "y", "U", "R", "I">>,
      base64Binary              |-> <<"b", "a", "s", "e", "6", "4", "B", "i", "n", "a", "r", "y">>,
      hexBinary                 |-> <<"h", "e", "x", "B", "i", "n", "a", "r", "y">>,
      unsignedLong              |-> <<"u", "n", "s", "i", "g", "n", "e", "d", "L", "o", "n", "g">>,
      unsignedShort             |-> <<"u", "n", "s", "i", "g", "n", "e", "d", "S", "h", "o", "r", "t">>,
      bool                      |-> <<"b", "o", "o", "l">>,
      int32                     |-> <<"i", "n", "t", "3", "2">>,
      int64                     |-> <<"i", "n", "t", "6", "4">>,
      bytes                     |-> <<"b", "y", "t", "e", "s">>,
      uint64                    |-> <<"u", "i", "n", "t", "6", "4">>,
      uint32                    |-> <<"u", "i", "n", "t", "3", "2">>,
      google_protobuf_Timestamp |-> <<"g", "o", "o", "g", "l", "e", ".", "p", "r", "o", "t", "o", "b", "u", "f", ".", "T", "i", "m", "e", "s", "t", "a", "m", "p">>,
      google_protobuf_Duration  |-> <<"g", "o", "o", "g", "l", "e", ".", "p", "r", "o", "t", "o", "b", "u", "f", ".", "D", "u", "r", "a", "t", "i", "o", "n">>,
      google_protobuf_Any       |-> <<"g", "o", "o", "g", "l", "e", ".", "p", "r", "o", "t", "o", "b", "u", "f", ".", "A", "n", "y">>,
      google_protobuf_Empty     |-> <<"g", "o", "o", "g", "l", "e", ".", "p", "r", "o", "t", "o", "b", "u", "f", ".", "E", "m", "p", "t", "y">>,
      google_protobuf_Struct    |-> <<"g", "o", "o", "g", "l", "e", ".", "p", "r", "o", "t", "o", "b", "u", "f", ".", "S", "t", "r", "u", "c", "t">>,
      google_protobuf_Value     |-> <<"g", "o", "o", "g", "l", "e", ".", "p", "r", "o", "t", "o", "b", "u", "f", ".", "V", "a", "l", "u", "e">>,
      google_protobuf_ListValue |-> <<"g", "o", "o", "g", "l", "e", ".", "p", "r", "o", "t", "o", "b", "u", "f", ".", "L", "i", "s", "t", "V", "a", "l", "u", "e">>,
      google_protobuf_FieldMask |-> <<"g", "o", "o", "g", "l", "e", ".", "p", "r", "o", "t", "o", "b", "u", "f", ".", "F", "i", "e", "l", "d", "M", "a", "s", "k">>,
      ArrayOf                   |-> <<"A", "r", "r", "a", "y", "O", "f">>,
      UNSPECIFIED_suffix        |-> <<"_", "U", "N", "S", "P", "E", "C", "I", "F", "I", "E", "D">>,
      UNSPECIFIED               |-> <<"U", "N", "S", "P", "E", "C", "I", "F", "I", "E", "D">>,
      generated                 |-> <<"g", "e", "n", "e", "r", "a", "t", "e", "d">>,
      httpScheme                |-> <<"h", "t", "t", "p", ":", "/", "/">>,
      httpsScheme               |-> <<"h", "t", "t", "p", "s", ":", "/", "/">>,
      dotSlash                  |-> <<".", "/">>,
      urnColon                  |-> <<"u", "r", "n", ":">> ]

(***************************************************************************)
(* package strings, as far as the converter uses it.                       *)
(***************************************************************************)
LowerLetters == <<"a", "b", "c", "d", "e", "f", "g", "h", "i", "j", "k", "l", "m", "n", "o", "p", "q", "r", "s", "t", "u", "v", "w", "x", "y", "z">>

UpperLetters == <<"A", "B", "C", "D", "E", "F", "G", "H", "I", "J", "K", "L", "M", "N", "O", "P", "Q", "R", "S", "T", "U", "V", "W", "X", "Y", "Z">>

Digits == <<"0", "1", "2", "3", "4", "5", "6", "7", "8", "9">>

\* r >= 'A' && r <= 'Z'
IsUpperRune(r) == \E i \in 1..26 : UpperLetters[i] = r

IsLowerRune(r) == \E i \in 1..26 : LowerLetters[i] = r

ToUpperRune(r) ==
    IF IsLowerRune(r) THEN UpperLetters[CHOOSE i \in 1..26 : LowerLetters[i] = r] ELSE r

ToLowerRune(r) ==
    IF IsUpperRune(r) THEN LowerLetters[CHOOSE i \in 1..26 : UpperLetters[i] = r] ELSE r

ToUpper(s) == [i \in 1..Len(s) |-> ToUpperRune(s[i])]

ToLower(s) == [i \in 1..Len(s) |-> ToLowerRune(s[i])]

HasPrefix(s, prefix) ==
    Len(s) >= Len(prefix) /\ SubSeq(s, 1, Len(prefix)) = prefix

\* The 1-based position of the last occurrence of r in s, 0 when there is
\* none (Go: the 0-based index, -1 when there is none).
LastIndex(s, r) ==
    IF \E i \in 1..Len(s) : s[i] = r
    THEN CHOOSE i \in 1..Len(s) : s[i] = r /\ \A j \in (i + 1)..Len(s) : s[j] # r
    ELSE 0

\* fmt.Sprintf("%d", n) for n >= 0
RECURSIVE Itoa(_)
Itoa(n) == IF n < 10 THEN <<Digits[n + 1]>> ELSE Itoa(n \div 10) \o <<Digits[(n % 10) + 1]>>

\* The separator test handed to strings.FieldsFunc by toPascalCase and toCamelCase.
IsNameSeparator(r) == r \in {"_", "-", "."}

\* strings.FieldsFunc(s, IsNameSeparator): the maximal runs of non-separators.
RECURSIVE FieldsFrom(_, _, _)
FieldsFrom(s, i, cur) ==
    LET flush == IF cur = <<>> THEN <<>> ELSE <<cur>>
    IN  IF i > Len(s) THEN flush
        ELSE IF IsNameSeparator(s[i]) THEN flush \o FieldsFrom(s, i + 1, <<>>)
        ELSE FieldsFrom(s, i + 1, Append(cur, s[i]))

FieldsFunc(s) == FieldsFrom(s, 1, <<>>)

\* Let(v, Body) is Body(v): a local variable of the code, computed once and
\* then read as often as the code reads it.
Let(value, Body(_)) == Body(value)

\* The concatenation of a sequence of strings.
RECURSIVE Concat(_)
Concat(parts) == IF parts = <<>> THEN <<>> ELSE Head(parts) \o Concat(Tail(parts))

(***************************************************************************)
(* TypeMapper                                                              *)
(***************************************************************************)
\* CleanTypeName cutting at the first colon instead of the last.
CleanTypeName_firstColon(typeName) ==
    IF \E k \in 1..Len(typeName) : typeName[k] = ":"
    THEN SubSeq(typeName, (CHOOSE k \in 1..Len(typeName) :
                              /\ typeName[k] = ":"
                              /\ \A j \in 1..(k - 1) : typeName[j] # ":") + 1, Len(typeName))
    ELSE typeName

CleanTypeName(typeName) ==
    Let(LastIndex(typeName, ":"), LAMBDA idx :
        IF idx # 0 THEN SubSeq(typeName, idx + 1, Len(typeName)) ELSE typeName)

builtInTypes ==
    { Lit.string, Lit.normalizedString, Lit.token, Lit.NMTOKEN,
      Lit.Name, Lit.NCName, Lit.ID, Lit.IDREF,
      Lit.boolean,
      Lit.int, Lit.integer, Lit.short, Lit.byte, Lit.unsignedByte,
      Lit.long, Lit.unsignedInt, Lit.unsignedLong, Lit.unsignedShort,
      Lit.float, Lit.double, Lit.decimal,
      Lit.dateTime, Lit.date, Lit.time, Lit.duration,
      Lit.anyURI, Lit.base64Binary, Lit.hexBinary }

IsBuiltInType(typeName) == CleanTypeName(typeName) \in builtInTypes

\* customMappings is empty: NewTypeMapper makes it so and nothing in the
\* repository calls AddCustomMapping.  The error result is always nil.
MapXSDType(xsdType) ==
    Let(CleanTypeName(xsdType), LAMBDA cleanType :
        CASE cleanType \in {Lit.string, Lit.normalizedString, Lit.token, Lit.NMTOKEN,
                            Lit.Name, Lit.NCName, Lit.ID, Lit.IDREF} -> Lit.string
          [] cleanType = Lit.boolean -> Lit.bool
          [] cleanType \in {Lit.int, Lit.integer, Lit.short, Lit.byte, Lit.unsignedByte} -> Lit.int32
          [] cleanType \in {Lit.long, Lit.unsignedInt} -> Lit.int64
          [] cleanType = Lit.float -> Lit.float
          [] cleanType \in {Lit.double, Lit.decimal} -> Lit.double
          [] cleanType \in {Lit.dateTime, Lit.date, Lit.time} -> Lit.google_protobuf_Timestamp
          [] cleanType = Lit.duration -> Lit.google_protobuf_Duration
          [] cleanType = Lit.anyURI -> Lit.string
          [] cleanType \in {Lit.base64Binary, Lit.hexBinary} -> Lit.bytes
          [] cleanType = Lit.unsignedLong -> Lit.uint64
          [] cleanType = Lit.unsignedShort -> Lit.uint32
          [] OTHER -> cleanType)

\* ImportOf without the case of google.protobuf.Duration.
ImportOf_withoutDuration(protoType) ==
    CASE protoType = Lit.google_protobuf_Timestamp -> "google/protobuf/timestamp.proto"
      [] protoType = Lit.google_protobuf_Any -> "google/protobuf/any.proto"
      [] protoType = Lit.google_protobuf_Empty -> "google/protobuf/empty.proto"
      [] protoType = Lit.google_protobuf_Struct -> "google/protobuf/struct.proto"
      [] protoType = Lit.google_protobuf_Value -> "google/protobuf/struct.proto"
      [] protoType = Lit.google_protobuf_ListValue -> "google/protobuf/struct.proto"
      [] protoType = Lit.google_protobuf_FieldMask -> "google/protobuf/field_mask.proto"
      [] OTHER -> ""

\* The import path of one mapped type, "" when it needs none.
ImportOf(protoType) ==
    CASE protoType = Lit.google_protobuf_Timestamp -> "google/protobuf/timestamp.proto"
      [] protoType = Lit.google_protobuf_Duration -> "google/protobuf/duration.proto"
      [] protoType = Lit.google_protobuf_Any -> "google/protobuf/any.proto"
      [] protoType = Lit.google_protobuf_Empty -> "google/protobuf/empty.proto"
      [] protoType = Lit.google_protobuf_Struct -> "google/protobuf/struct.proto"
      [] protoType = Lit.google_protobuf_Value -> "google/protobuf/struct.proto"
      [] protoType = Lit.google_protobuf_ListValue -> "google/protobuf/struct.proto"
      [] protoType = Lit.google_protobuf_FieldMask -> "google/protobuf/field_mask.proto"
      [] OTHER -> ""

\* The keys of GetRequiredImports' imports map after its first loop.
RequiredImportSet(mappedTypes) ==
    { ImportOf(mappedTypes[i]) : i \in 1..Len(mappedTypes) } \ {""}

\* The orders in which the second loop may range over the map: Go leaves
\* the iteration order of a map unspecified.
ImportOrders(imports) ==
    { s \in [1..Cardinality(imports) -> imports] :
        \A i, j \in 1..Cardinality(imports) : i # j => s[i] # s[j] }

(***************************************************************************)
(* Naming                                                                  *)
(***************************************************************************)
RECURSIVE SplitCamelFrom(_, _, _)
SplitCamelFrom(s, i, current) ==
    LET flush == IF current # <<>> THEN <<current>> ELSE <<>>
    IN  IF i > Len(s) THEN flush
        ELSE IF i > 1 /\ IsUpperRune(s[i]) THEN flush \o SplitCamelFrom(s, i + 1, <<s[i]>>)
        ELSE SplitCamelFrom(s, i + 1, Append(current, s[i]))

splitCamelCase(s) == IF Len(s) = 0 THEN <<>> ELSE SplitCamelFrom(s, 1, <<>>)

\* finalParts of toPascalCase and toCamelCase.
FinalParts(s) ==
    Let(FieldsFunc(s), LAMBDA parts :
        Concat([i \in 1..Len(parts) |-> splitCamelCase(parts[i])]))

\* strings.ToUpper(part[:1]) followed by strings.ToLower(part[1:])
Capitalized(part) ==
    IF Len(part) > 0 THEN <<ToUpperRune(part[1])>> \o ToLower(Tail(part)) ELSE <<>>

toPascalCase(s) ==
    Let(FinalParts(s), LAMBDA finalParts :
        Concat([i \in 1..Len(finalParts) |-> Capitalized(finalParts[i])]))

toCamelCase(s) ==
    Let(FinalParts(s), LAMBDA finalParts :
        Concat([i \in 1..Len(finalParts) |->
                  IF i = 1 THEN ToLower(finalParts[i]) ELSE Capitalized(finalParts[i])]))

\* toSnakeCase writing "-" and "." as they are.
toSnakeCase_keepingSeparators(s) ==
    LET piece(i) == (IF i > 1 /\ IsUpperRune(s[i]) THEN <<"_">> ELSE <<>>) \o <<s[i]>>
    IN  ToLower(Concat([i \in 1..Len(s) |-> piece(i)]))

toSnakeCase(s) ==
    LET piece(i) == (IF i > 1 /\ IsUpperRune(s[i]) THEN <<"_">> ELSE <<>>)
                    \o (IF s[i] \in {"-", "."} THEN <<"_">> ELSE <<s[i]>>)
    IN  ToLower(Concat([i \in 1..Len(s) |-> piece(i)]))

formatMessageName(name) == toPascalCase(name)

formatEnumName(name) == toPascalCase(name)

\* strings.Split(s, sep) for a one-character separator: the pieces between
\* the separators, empty ones included.
RECURSIVE SplitFrom(_, _, _, _)
SplitFrom(s, sep, k, cur) ==
    IF k > Len(s) THEN <<cur>>
    ELSE IF s[k] = sep THEN <<cur>> \o SplitFrom(s, sep, k + 1, <<>>)
    ELSE SplitFrom(s, sep, k + 1, Append(cur, s[k]))

Split(s, sep) == SplitFrom(s, sep, 1, <<>>)

\* strings.Join(parts, ".")
RECURSIVE JoinDots(_)
JoinDots(parts) ==
    IF parts = <<>> THEN <<>>
    ELSE IF Len(parts) = 1 THEN parts[1]
    ELSE parts[1] \o <<".">> \o JoinDots(Tail(parts))

TrimPrefix(s, prefix) ==
    IF HasPrefix(s, prefix) THEN SubSeq(s, Len(prefix) + 1, Len(s)) ELSE s

\* strings.ReplaceAll(s, old, new) for one-character old and new
ReplaceAll(s, old, new) == [k \in 1..Len(s) |-> IF s[k] = old THEN new ELSE s[k]]

\* The non-empty members of parts, in order.
NonEmpty(parts) == SelectSeq(parts, LAMBDA part : part # <<>>)

\* generatePackageName without its case of exactly two segments.
generatePackageName_withoutTwoSegments(targetNamespace) ==
    IF targetNamespace = <<>> THEN Lit.generated
    ELSE IF HasPrefix(targetNamespace, Lit.httpScheme) \/ HasPrefix(targetNamespace, Lit.httpsScheme)
    THEN Let(Split(TrimPrefix(TrimPrefix(targetNamespace, Lit.httpScheme), Lit.httpsScheme), "/"),
             LAMBDA parts :
                IF Len(parts) > 1 /\ parts[Len(parts)] # <<>> THEN parts[Len(parts)]
                ELSE JoinDots((IF parts[1] # <<>> THEN Split(parts[1], ".") ELSE <<>>)
                              \o (IF Len(parts) > 1 THEN NonEmpty(Tail(parts)) ELSE <<>>)))
    ELSE IF HasPrefix(targetNamespace, Lit.dotSlash)
    THEN JoinDots(NonEmpty(Split(TrimPrefix(targetNamespace, Lit.dotSlash), "/")))
    ELSE IF HasPrefix(targetNamespace, Lit.urnColon)
    THEN Let(Split(targetNamespace, ":"), LAMBDA parts : parts[Len(parts)])
    ELSE TrimPrefix(ReplaceAll(ReplaceAll(targetNamespace, "/", "."), "_", "."), <<".">>)

generatePackageName(targetNamespace) ==
    IF targetNamespace = <<>> THEN Lit.generated
    ELSE IF HasPrefix(targetNamespace, Lit.httpScheme) \/ HasPrefix(targetNamespace, Lit.httpsScheme)
    THEN Let(Split(TrimPrefix(TrimPrefix(targetNamespace, Lit.httpScheme), Lit.httpsScheme), "/"),
             LAMBDA parts :
                IF Len(parts) = 2 THEN parts[2]
                ELSE IF Len(parts) > 1 /\ parts[Len(parts)] # <<>> THEN parts[Len(parts)]
                ELSE JoinDots((IF parts[1] # <<>> THEN Split(parts[1], ".") ELSE <<>>)
                              \o (IF Len(parts) > 1 THEN NonEmpty(Tail(parts)) ELSE <<>>)))
    ELSE IF HasPrefix(targetNamespace, Lit.dotSlash)
    THEN JoinDots(NonEmpty(Split(TrimPrefix(targetNamespace, Lit.dotSlash), "/")))
    ELSE IF HasPrefix(targetNamespace, Lit.urnColon)
    THEN Let(Split(targetNamespace, ":"), LAMBDA parts : parts[Len(parts)])
    ELSE TrimPrefix(ReplaceAll(ReplaceAll(targetNamespace, "/", "."), "_", "."), <<".">>)

(***************************************************************************)
(* The data model (internal/model).  A pointer is a sequence of length at  *)
(* most one: <<>> is nil and <<v>> points at v.  A map is a function whose *)
(* domain is the set of its keys.  The strings the code only compares as a *)
(* whole (minOccurs, maxOccurs, use, import paths) are plain strings.      *)
(***************************************************************************)
NilPtr == <<>>

Ptr(v) == <<v>>

Deref(p) == p[1]

EmptyMap == [k \in {} |-> 0]

MapPut(m, k, v) == [x \in (DOMAIN m) \cup {k} |-> IF x = k THEN v ELSE m[x]]

\* m[k], with the zero value for a missing key
MapGet(m, k, zero) == IF k \in DOMAIN m THEN m[k] ELSE zero

FieldLabelOptional == 0

FieldLabelRequired == 1

FieldLabelRepeated == 2

VARIABLES
    c,           \* the Converter
    schema,      \* the *model.Schema handed to Convert; c.currentSchema points at it
    protoFile,   \* Convert's protoFile
    pc,          \* where Convert is
    i,           \* the index of the loop Convert is in
    enumSource,  \* for each emitted enum, the index of its simple type
    msgSource,   \* for each emitted message, the pass and index it comes from
    tm,          \* the last call of the type mapper on its own: its argument and result
    returned,    \* the ProtoFiles earlier calls of Convert on this Converter returned
    args,        \* the flags on the command line of the run, for runs of main
    err,         \* the error Convert returns, nil until it returns one
    files,          \* the file system: what is at each absolute path
    processedFiles, \* the map ParseFileWithImports makes for its call
    stack,          \* the calls of parseFileRecursive in progress, the innermost last
    opened,         \* the files ParseFile has been called on, in the order of the calls
    result          \* what ParseFileWithImports returned, nil until it returns

parserVars == <<files, processedFiles, stack, opened, result>>

vars == <<c, schema, protoFile, pc, i, enumSource, msgSource, tm, returned, args, err, parserVars>>

\* No call of ParseFileWithImports: the runs of Convert start from a
\* schema tree.
ParserIdle ==
    /\ files = <<>>
    /\ processedFiles = {}
    /\ stack = <<>>
    /\ opened = <<>>
    /\ result = <<>>


(***************************************************************************)
(* Converter                                                               *)
(***************************************************************************)
New ==
    [ fieldCounter      |-> 1,
      usedEnumValues    |-> {},
      enumValueCounters |-> EmptyMap,
      usedMessageNames  |-> {},
      usedEnumNames     |-> {},
      typeRenameMap     |-> EmptyMap,
      useCamelCase      |-> FALSE,
      usePascalCase     |-> FALSE,
      currentSchema     |-> NilPtr ]

formatFieldName(cv, name) ==
    IF cv.usePascalCase THEN toPascalCase(name)
    ELSE IF cv.useCamelCase THEN toCamelCase(name)
    ELSE toSnakeCase(name)

\* determineFieldLabel with the test of minOccurs before that of maxOccurs.
determineFieldLabel_minOccursFirst(minOccurs, maxOccurs) ==
    IF minOccurs = "0" THEN FieldLabelOptional
    ELSE IF maxOccurs = "unbounded" \/ (maxOccurs # "" /\ maxOccurs # "1") THEN FieldLabelRepeated
    ELSE FieldLabelRequired

determineFieldLabel(minOccurs, maxOccurs) ==
    IF maxOccurs = "unbounded" \/ (maxOccurs # "" /\ maxOccurs # "1") THEN FieldLabelRepeated
    ELSE IF minOccurs = "0" THEN FieldLabelOptional
    ELSE FieldLabelRequired

determineAttributeLabel(use) ==
    IF use = "required" THEN FieldLabelRequired ELSE FieldLabelOptional

RECURSIVE FirstFreeCounter(_, _, _)

\* FirstFreeCounter without the loop: the first candidate is taken untested.
FirstFreeCounter_untested(baseName, counter, used) == counter

\* The counter at which the loops of the generateUnique... functions stop:
\* the first one, counting up from `counter`, whose candidate is unused.
FirstFreeCounter(baseName, counter, used) ==
    IF (baseName \o Itoa(counter)) \notin used THEN counter
    ELSE FirstFreeCounter(baseName, counter + 1, used)

\* generateUniqueEnumValueName with 2 as the first number it tries.
generateUniqueEnumValueName_fromTwo(cv, enumName, valueName, isFirstValue) ==
    Let(ToUpper(toSnakeCase(enumName)), LAMBDA enumPrefix :
    Let(IF isFirstValue THEN enumPrefix \o Lit.UNSPECIFIED_suffix
        ELSE enumPrefix \o <<"_">> \o ToUpper(valueName), LAMBDA prefixedName :
        IF prefixedName \notin cv.usedEnumValues
        THEN [ c    |-> [cv EXCEPT !.usedEnumValues = @ \cup {prefixedName}],
               name |-> prefixedName ]
        ELSE Let(FirstFreeCounter(prefixedName,
                     MapGet(cv.enumValueCounters, prefixedName, 1) + 1,
                     cv.usedEnumValues), LAMBDA counter :
             Let(prefixedName \o Itoa(counter), LAMBDA candidateName :
                 [ c    |-> [cv EXCEPT !.usedEnumValues = @ \cup {candidateName},
                                       !.enumValueCounters = MapPut(@, prefixedName, counter)],
                   name |-> candidateName ]))))

\* generateUniqueEnumValueName without its test of usedEnumValues.
generateUniqueEnumValueName_untested(cv, enumName, valueName, isFirstValue) ==
    Let(ToUpper(toSnakeCase(enumName)), LAMBDA enumPrefix :
    Let(IF isFirstValue THEN enumPrefix \o Lit.UNSPECIFIED_suffix
        ELSE enumPrefix \o <<"_">> \o ToUpper(valueName), LAMBDA prefixedName :
        [ c    |-> [cv EXCEPT !.usedEnumValues = @ \cup {prefixedName}],
          name |-> prefixedName ]))

\* generateUniqueEnumValueName with the prefix left in snake_case.
generateUniqueEnumValueName_lowerPrefix(cv, enumName, valueName, isFirstValue) ==
    Let(toSnakeCase(enumName), LAMBDA enumPrefix :
    Let(IF isFirstValue THEN enumPrefix \o Lit.UNSPECIFIED_suffix
        ELSE enumPrefix \o <<"_">> \o ToUpper(valueName), LAMBDA prefixedName :
        IF prefixedName \notin cv.usedEnumValues
        THEN [ c    |-> [cv EXCEPT !.usedEnumValues = @ \cup {prefixedName}],
               name |-> prefixedName ]
        ELSE Let(FirstFreeCounter(prefixedName,
                     MapGet(cv.enumValueCounters, prefixedName, 0) + 1,
                     cv.usedEnumValues), LAMBDA counter :
             Let(prefixedName \o Itoa(counter), LAMBDA candidateName :
                 [ c    |-> [cv EXCEPT !.usedEnumValues = @ \cup {candidateName},
                                       !.enumValueCounters = MapPut(@, prefixedName, counter)],
                   name |-> candidateName ]))))

generateUniqueEnumValueName(cv, enumName, valueName, isFirstValue) ==
    Let(ToUpper(toSnakeCase(enumName)), LAMBDA enumPrefix :
    Let(IF isFirstValue THEN enumPrefix \o Lit.UNSPECIFIED_suffix
        ELSE enumPrefix \o <<"_">> \o ToUpper(valueName), LAMBDA prefixedName :
        IF prefixedName \notin cv.usedEnumValues
        THEN [ c    |-> [cv EXCEPT !.usedEnumValues = @ \cup {prefixedName}],
               name |-> prefixedName ]
        ELSE Let(FirstFreeCounter(prefixedName,
                     MapGet(cv.enumValueCounters, prefixedName, 0) + 1,
                     cv.usedEnumValues), LAMBDA counter :
             Let(prefixedName \o Itoa(counter), LAMBDA candidateName :
                 [ c    |-> [cv EXCEPT !.usedEnumValues = @ \cup {candidateName},
                                       !.enumValueCounters = MapPut(@, prefixedName, counter)],
                   name |-> candidateName ]))))

\* generateUniqueMessageName looking at the message names only.
generateUniqueMessageName_ignoringEnums(cv, originalName) ==
    Let(formatMessageName(originalName), LAMBDA formattedName :
        IF formattedName \notin cv.usedMessageNames
        THEN [ c    |-> [cv EXCEPT !.usedMessageNames = @ \cup {formattedName},
                                   !.typeRenameMap = MapPut(@, originalName, formattedName)],
               name |-> formattedName ]
        ELSE Let(formattedName \o Itoa(FirstFreeCounter(formattedName, 2,
                     cv.usedMessageNames)), LAMBDA candidateName :
                 [ c    |-> [cv EXCEPT !.usedMessageNames = @ \cup {candidateName},
                                       !.typeRenameMap = MapPut(@, originalName, candidateName)],
                   name |-> candidateName ]))

\* generateUniqueMessageName with its counter starting at 1.
generateUniqueMessageName_fromOne(cv, originalName) ==
    Let(formatMessageName(originalName), LAMBDA formattedName :
        IF formattedName \notin cv.usedMessageNames /\ formattedName \notin cv.usedEnumNames
        THEN [ c    |-> [cv EXCEPT !.usedMessageNames = @ \cup {formattedName},
                                   !.typeRenameMap = MapPut(@, originalName, formattedName)],
               name |-> formattedName ]
        ELSE Let(formattedName \o Itoa(FirstFreeCounter(formattedName, 1,
                     cv.usedMessageNames \cup cv.usedEnumNames)), LAMBDA candidateName :
                 [ c    |-> [cv EXCEPT !.usedMessageNames = @ \cup {candidateName},
                                       !.typeRenameMap = MapPut(@, originalName, candidateName)],
                   name |-> candidateName ]))

generateUniqueMessageName(cv, originalName) ==
    Let(formatMessageName(originalName), LAMBDA formattedName :
        IF formattedName \notin cv.usedMessageNames /\ formattedName \notin cv.usedEnumNames
        THEN [ c    |-> [cv EXCEPT !.usedMessageNames = @ \cup {formattedName},
                                   !.typeRenameMap = MapPut(@, originalName, formattedName)],
               name |-> formattedName ]
        ELSE Let(formattedName \o Itoa(FirstFreeCounter(formattedName, 2,
                     cv.usedMessageNames \cup cv.usedEnumNames)), LAMBDA candidateName :
                 [ c    |-> [cv EXCEPT !.usedMessageNames = @ \cup {candidateName},
                                       !.typeRenameMap = MapPut(@, originalName, candidateName)],
                   name |-> candidateName ]))

\* generateUniqueEnumName testing the name against the enum names only.
generateUniqueEnumName_ignoringMessages(cv, originalName) ==
    Let(formatEnumName(originalName), LAMBDA formattedName :
        IF formattedName \notin cv.usedEnumNames
        THEN [ c    |-> [cv EXCEPT !.usedEnumNames = @ \cup {formattedName},
                                   !.typeRenameMap = MapPut(@, originalName, formattedName)],
               name |-> formattedName ]
        ELSE Let(formattedName \o Itoa(FirstFreeCounter(formattedName, 2,
                     cv.usedEnumNames)), LAMBDA candidateName :
                 [ c    |-> [cv EXCEPT !.usedEnumNames = @ \cup {candidateName},
                                       !.typeRenameMap = MapPut(@, originalName, candidateName)],
                   name |-> candidateName ]))

generateUniqueEnumName(cv, originalName) ==
    Let(formatEnumName(originalName), LAMBDA formattedName :
        IF formattedName \notin cv.usedEnumNames /\ formattedName \notin cv.usedMessageNames
        THEN [ c    |-> [cv EXCEPT !.usedEnumNames = @ \cup {formattedName},
                                   !.typeRenameMap = MapPut(@, originalName, formattedName)],
               name |-> formattedName ]
        ELSE Let(formattedName \o Itoa(FirstFreeCounter(formattedName, 2,
                     cv.usedEnumNames \cup cv.usedMessageNames)), LAMBDA candidateName :
                 [ c    |-> [cv EXCEPT !.usedEnumNames = @ \cup {candidateName},
                                       !.typeRenameMap = MapPut(@, originalName, candidateName)],
                   name |-> candidateName ]))

\* element.MaxOccurs == "unbounded" || (element.MaxOccurs != "" && element.MaxOccurs != "1")
IsRepeatedBound(maxOccurs) ==
    maxOccurs = "unbounded" \/ (maxOccurs # "" /\ maxOccurs # "1")

\* isArrayOfPattern recognising nothing.
isArrayOfPattern_never(complexType) == FALSE

isArrayOfPattern(complexType) ==
    IF ~HasPrefix(CleanTypeName(complexType.Name), Lit.ArrayOf) THEN FALSE
    ELSE IF complexType.Sequence = NilPtr
            \/ Len(Deref(complexType.Sequence).Elements) # 1 THEN FALSE
    ELSE IsRepeatedBound(Deref(complexType.Sequence).Elements[1].MaxOccurs)

\* The complex types getArrayOfElementType's loop stops at: those of the
\* schema that have the cleaned name and match the pattern.
ArrayOfHits(cleanType) ==
    { k \in 1..Len(schema.ComplexTypes) :
        /\ CleanTypeName(schema.ComplexTypes[k].Name) = cleanType
        /\ isArrayOfPattern(schema.ComplexTypes[k]) }

\* "" (the empty sequence) when typeName names no array wrapper.  The loop
\* returns at the first complex type of the schema that has the cleaned
\* name and matches the pattern.
getArrayOfElementType(cv, typeName) ==
    Let(CleanTypeName(typeName), LAMBDA cleanType :
        IF ~HasPrefix(cleanType, Lit.ArrayOf) THEN <<>>
        ELSE IF cv.currentSchema = NilPtr THEN <<>>
        ELSE Let(ArrayOfHits(cleanType), LAMBDA hits :
                 IF hits = {} THEN <<>>
                 ELSE Let(Deref(schema.ComplexTypes[CHOOSE k \in hits : \A h \in hits : k <= h]
                                  .Sequence).Elements[1], LAMBDA element :
                          IF IsBuiltInType(element.Type) THEN MapXSDType(element.Type)
                          ELSE toPascalCase(CleanTypeName(element.Type)))))

\* renamedType with the lookup of the PascalCase form made first.
renamedType_pascalCaseFirst(cv, declaredType, protoType) ==
    Let(CleanTypeName(declaredType), LAMBDA cleanType :
    Let(toPascalCase(cleanType), LAMBDA pascalCaseType :
        IF pascalCaseType \in DOMAIN cv.typeRenameMap THEN cv.typeRenameMap[pascalCaseType]
        ELSE IF cleanType \in DOMAIN cv.typeRenameMap THEN cv.typeRenameMap[cleanType]
        ELSE protoType))

\* The lookup convertElementToField and convertAttributeToField make for a
\* declared type that is not built in: the rename map's entry for the
\* cleaned name, else its entry for the PascalCase form of the cleaned name,
\* else protoType as the type mapper gave it.
renamedType(cv, declaredType, protoType) ==
    Let(CleanTypeName(declaredType), LAMBDA cleanType :
        IF cleanType \in DOMAIN cv.typeRenameMap THEN cv.typeRenameMap[cleanType]
        ELSE Let(toPascalCase(cleanType), LAMBDA pascalCaseType :
                 IF pascalCaseType \in DOMAIN cv.typeRenameMap
                 THEN cv.typeRenameMap[pascalCaseType]
                 ELSE protoType))

convertElementToField(cv, element) ==
    Let(MapXSDType(element.Type), LAMBDA protoType :
    Let(getArrayOfElementType(cv, element.Type), LAMBDA arrayElementType :
        [ c     |-> [cv EXCEPT !.fieldCounter = @ + 1],
          field |-> [ Name   |-> formatFieldName(cv, element.Name),
                      Type   |-> IF arrayElementType # <<>> THEN arrayElementType
                                 ELSE IF ~IsBuiltInType(element.Type)
                                      THEN renamedType(cv, element.Type, protoType)
                                      ELSE protoType,
                      Number |-> cv.fieldCounter,
                      Label  |-> IF arrayElementType # <<>> THEN FieldLabelRepeated
                                 ELSE determineFieldLabel(element.MinOccurs, element.MaxOccurs) ] ]))

convertAttributeToField(cv, attribute) ==
    Let(MapXSDType(attribute.Type), LAMBDA protoType :
        [ c     |-> [cv EXCEPT !.fieldCounter = @ + 1],
          field |-> [ Name   |-> formatFieldName(cv, attribute.Name),
                      Type   |-> IF ~IsBuiltInType(attribute.Type)
                                 THEN renamedType(cv, attribute.Type, protoType)
                                 ELSE protoType,
                      Number |-> cv.fieldCounter,
                      Label  |-> determineAttributeLabel(attribute.Use) ] ])

\* The loops of convertComplexType over the sequence's and the choice's
\* elements, from element k on: the fields they append, and the Converter
\* after them.  forceOptional is the choice loop's field.Label assignment.
RECURSIVE convertElementsFrom(_, _, _, _)
RECURSIVE convertElementsFrom_keepingLabel(_, _, _, _)

\* convertElementsFrom without the choice loop's assignment to field.Label.
convertElementsFrom_keepingLabel(cv, elements, k, forceOptional) ==
    IF k > Len(elements) THEN [c |-> cv, fields |-> <<>>]
    ELSE Let(convertElementToField(cv, elements[k]), LAMBDA one :
         Let(convertElementsFrom_keepingLabel(one.c, elements, k + 1, forceOptional), LAMBDA rest :
             [c |-> rest.c, fields |-> <<one.field>> \o rest.fields]))

convertElementsFrom(cv, elements, k, forceOptional) ==
    IF k > Len(elements) THEN [c |-> cv, fields |-> <<>>]
    ELSE Let(convertElementToField(cv, elements[k]), LAMBDA one :
         Let(convertElementsFrom(one.c, elements, k + 1, forceOptional), LAMBDA rest :
             [ c      |-> rest.c,
               fields |-> <<IF forceOptional
                            THEN [one.field EXCEPT !.Label = FieldLabelOptional]
                            ELSE one.field>> \o rest.fields ]))

\* The loop of convertComplexType over the attributes.
RECURSIVE convertAttributesFrom(_, _, _)
convertAttributesFrom(cv, attributes, k) ==
    IF k > Len(attributes) THEN [c |-> cv, fields |-> <<>>]
    ELSE Let(convertAttributeToField(cv, attributes[k]), LAMBDA one :
         Let(convertAttributesFrom(one.c, attributes, k + 1), LAMBDA rest :
             [c |-> rest.c, fields |-> <<one.field>> \o rest.fields]))

\* A loop over the elements of a sequence or choice that may be nil.
convertGroup(cv, group, forceOptional) ==
    IF group # NilPtr THEN convertElementsFrom(cv, Deref(group).Elements, 1, forceOptional)
    ELSE [c |-> cv, fields |-> <<>>]

\* convertComplexType without its reset of the field counter.
convertComplexType_noReset(cv, complexType) ==
    Let(generateUniqueMessageName(cv, complexType.Name), LAMBDA named :
    Let(convertGroup(named.c, complexType.Sequence, FALSE), LAMBDA seq :
    Let(convertGroup(seq.c, complexType.Choice, TRUE), LAMBDA choice :
    Let(convertAttributesFrom(choice.c, complexType.Attributes, 1), LAMBDA attrs :
        [ c       |-> attrs.c,
          message |-> [ Name   |-> named.name,
                        Fields |-> seq.fields \o choice.fields \o attrs.fields ] ]))))

convertComplexType(cv, complexType) ==
    Let(generateUniqueMessageName(cv, complexType.Name), LAMBDA named :
    Let(convertGroup([named.c EXCEPT !.fieldCounter = 1], complexType.Sequence, FALSE), LAMBDA seq :
    Let(convertGroup(seq.c, complexType.Choice, TRUE), LAMBDA choice :
    Let(convertAttributesFrom(choice.c, complexType.Attributes, 1), LAMBDA attrs :
        [ c       |-> attrs.c,
          message |-> [ Name   |-> named.name,
                        Fields |-> seq.fields \o choice.fields \o attrs.fields ] ]))))

\* The error results.  nil is NilPtr; an error is a pointer to its text and
\* the error it wraps.
\* MapXSDType returning an error for a type name its table does not have.
MapXSDTypeErr_unknownRefused(xsdType) ==
    IF CleanTypeName(xsdType) \in builtInTypes THEN NilPtr
    ELSE Ptr([text |-> "unsupported type", wraps |-> NilPtr])

\* Every return statement of MapXSDType has nil as its second value.
MapXSDTypeErr(xsdType) == NilPtr

convertElementToFieldErr(element) == MapXSDTypeErr(element.Type)

convertAttributeToFieldErr(attribute) == MapXSDTypeErr(attribute.Type)

\* The first error of a sequence of error results that is not nil.
RECURSIVE FirstError(_)
FirstError(errs) ==
    IF errs = <<>> THEN NilPtr
    ELSE IF Head(errs) # NilPtr THEN Head(errs)
    ELSE FirstError(Tail(errs))

groupErrs(group) ==
    IF group # NilPtr
    THEN [k \in 1..Len(Deref(group).Elements) |->
             convertElementToFieldErr(Deref(group).Elements[k])]
    ELSE <<>>

\* convertComplexType returns the first error one of its fields gives.
convertComplexTypeErr(complexType) ==
    FirstError(groupErrs(complexType.Sequence) \o groupErrs(complexType.Choice)
               \o [k \in 1..Len(complexType.Attributes) |->
                      convertAttributeToFieldErr(complexType.Attributes[k])])

convertElementToMessageErr(element) ==
    IF element.ComplexType = NilPtr
    THEN Ptr([text |-> "element has no complex type", wraps |-> NilPtr])
    ELSE convertComplexTypeErr(Deref(element.ComplexType))

\* convertElementToMessage naming the message after the element in every
\* case.
messageNameOf_elementName(element) == element.Name

\* The name convertElementToMessage writes into the element's complex type.
\* The element's ComplexType is not nil: Convert has tested it.
messageNameOf(element) ==
    IF Deref(element.ComplexType).Name # <<>> THEN Deref(element.ComplexType).Name
    ELSE element.Name

RECURSIVE convertEnumerationsFrom(_, _, _, _)

\* convertEnumerationsFrom numbering the values by the loop index i.
convertEnumerationsFrom_fromZero(cv, uniqueEnumName, enumerations, k) ==
    IF k > Len(enumerations) THEN [c |-> cv, values |-> <<>>]
    ELSE Let(generateUniqueEnumValueName(cv, uniqueEnumName, enumerations[k].Value, FALSE),
             LAMBDA one :
         Let(convertEnumerationsFrom(one.c, uniqueEnumName, enumerations, k + 1), LAMBDA rest :
             [ c      |-> rest.c,
               values |-> <<[Name |-> one.name, Number |-> k - 1]>> \o rest.values ]))

\* The loop of convertSimpleTypeToEnum over the enumerations, from the k-th
\* (the code's i + 1 is k).
convertEnumerationsFrom(cv, uniqueEnumName, enumerations, k) ==
    IF k > Len(enumerations) THEN [c |-> cv, values |-> <<>>]
    ELSE Let(generateUniqueEnumValueName(cv, uniqueEnumName, enumerations[k].Value, FALSE),
             LAMBDA one :
         Let(convertEnumerationsFrom(one.c, uniqueEnumName, enumerations, k + 1), LAMBDA rest :
             [ c      |-> rest.c,
               values |-> <<[Name |-> one.name, Number |-> k]>> \o rest.values ]))

\* convertSimpleTypeToEnum naming the values after the formatted source
\* name of the simple type.
convertSimpleTypeToEnum_sourceName(cv, simpleType) ==
    Let(generateUniqueEnumName(cv, simpleType.Name), LAMBDA named :
    Let(generateUniqueEnumValueName(named.c, formatEnumName(simpleType.Name),
            Lit.UNSPECIFIED, TRUE), LAMBDA unspecified :
    Let(convertEnumerationsFrom(unspecified.c, formatEnumName(simpleType.Name),
            Deref(simpleType.Restriction).Enumerations, 1), LAMBDA rest :
        [ c    |-> rest.c,
          enum |-> [ Name   |-> named.name,
                     Values |-> <<[Name |-> unspecified.name, Number |-> 0]>> \o rest.values ] ])))

convertSimpleTypeToEnum(cv, simpleType) ==
    Let(generateUniqueEnumName(cv, simpleType.Name), LAMBDA named :
    Let(generateUniqueEnumValueName(named.c, named.name, Lit.UNSPECIFIED, TRUE), LAMBDA unspecified :
    Let(convertEnumerationsFrom(unspecified.c, named.name,
            Deref(simpleType.Restriction).Enumerations, 1), LAMBDA rest :
        [ c    |-> rest.c,
          enum |-> [ Name   |-> named.name,
                     Values |-> <<[Name |-> unspecified.name, Number |-> 0]>> \o rest.values ] ])))

(***************************************************************************)
(* Convert, one action for its prologue, one for each iteration of each of *)
(* its three loops, one for each loop's end and one for its epilogue.      *)
(***************************************************************************)
\* The zero value of model.ProtoFile: Convert has not been called.
NoMapping == [prefix |-> <<>>, name |-> <<>>, result |-> <<>>]

NoProtoFile ==
    [Syntax |-> "", Package |-> <<>>, Imports |-> <<>>, Messages |-> <<>>, Enums |-> <<>>]

\* Convert returning nil and an error that wraps e: the passes stop.
Failed(text, e) ==
    /\ err' = Ptr([text |-> text, wraps |-> e])
    /\ protoFile' = NoProtoFile
    /\ pc' = "failed"
    /\ UNCHANGED <<c, i, msgSource>>

Begin ==
    /\ pc = "start"
    /\ c' = [c EXCEPT !.currentSchema = Ptr("schema")]
    /\ protoFile' = [ Syntax   |-> "proto3",
                      Package  |-> generatePackageName(schema.TargetNamespace),
                      Imports  |-> <<>>,
                      Messages |-> <<>>,
                      Enums    |-> <<>> ]
    /\ pc' = "simpleTypes"
    /\ i' = 1
    /\ UNCHANGED <<schema, enumSource, msgSource, tm, returned, args, err, parserVars>>

FirstPass ==
    /\ pc = "simpleTypes"
    /\ i <= Len(schema.SimpleTypes)
    /\ LET simpleType == schema.SimpleTypes[i]
       IN  IF /\ simpleType.Restriction # NilPtr
              /\ Len(Deref(simpleType.Restriction).Enumerations) > 0
           THEN Let(convertSimpleTypeToEnum(c, simpleType), LAMBDA r :
                    /\ c' = r.c
                    /\ protoFile' = [protoFile EXCEPT !.Enums = Append(@, r.enum)]
                    /\ enumSource' = Append(enumSource, i))
           ELSE UNCHANGED <<c, protoFile, enumSource>>
    /\ i' = i + 1
    /\ UNCHANGED <<schema, pc, msgSource, tm, returned, args, err, parserVars>>

FirstPassEnd ==
    /\ pc = "simpleTypes"
    /\ i > Len(schema.SimpleTypes)
    /\ pc' = "complexTypes"
    /\ i' = 1
    /\ UNCHANGED <<c, schema, protoFile, enumSource, msgSource, tm, returned, args, err, parserVars>>

SecondPass ==
    /\ pc = "complexTypes"
    /\ i <= Len(schema.ComplexTypes)
    /\ LET complexType == schema.ComplexTypes[i]
       IN  IF isArrayOfPattern(complexType)
           THEN /\ i' = i + 1
                /\ UNCHANGED <<c, protoFile, msgSource, pc, err>>
           ELSE Let(convertComplexTypeErr(complexType), LAMBDA e :
                IF e # NilPtr
                THEN Failed("failed to convert complex type", e)
                ELSE Let(convertComplexType(c, complexType), LAMBDA r :
                    /\ c' = r.c
                    /\ protoFile' = [protoFile EXCEPT !.Messages = Append(@, r.message)]
                    /\ msgSource' = Append(msgSource, [pass |-> "complexTypes", index |-> i])
                    /\ i' = i + 1
                    /\ UNCHANGED <<pc, err>>))
    /\ UNCHANGED <<schema, enumSource, tm, returned, args, parserVars>>

SecondPassEnd ==
    /\ pc = "complexTypes"
    /\ i > Len(schema.ComplexTypes)
    /\ pc' = "elements"
    /\ i' = 1
    /\ UNCHANGED <<c, schema, protoFile, enumSource, msgSource, tm, returned, args, err, parserVars>>

\* convertElementToMessage writes the message name through the element's
\* ComplexType pointer, that is into the schema Convert was handed.
ThirdPass ==
    /\ pc = "elements"
    /\ i <= Len(schema.Elements)
    /\ LET element == schema.Elements[i]
       IN  IF element.ComplexType # NilPtr
           THEN Let(convertElementToMessageErr(element), LAMBDA e :
                IF e # NilPtr
                THEN /\ Failed("failed to convert element", e)
                     /\ UNCHANGED schema
                ELSE Let([Deref(element.ComplexType) EXCEPT !.Name = messageNameOf(element)],
                         LAMBDA complexType :
                     Let(convertComplexType(c, complexType), LAMBDA r :
                         /\ schema' = [schema EXCEPT !.Elements[i].ComplexType = Ptr(complexType)]
                         /\ c' = r.c
                         /\ protoFile' = [protoFile EXCEPT !.Messages = Append(@, r.message)]
                         /\ msgSource' = Append(msgSource, [pass |-> "elements", index |-> i])
                         /\ i' = i + 1
                         /\ UNCHANGED <<pc, err>>)))
           ELSE /\ i' = i + 1
                /\ UNCHANGED <<schema, c, protoFile, msgSource, pc, err>>
    /\ UNCHANGED <<enumSource, tm, returned, args, parserVars>>

ThirdPassEnd ==
    /\ pc = "elements"
    /\ i > Len(schema.Elements)
    /\ pc' = "imports"
    /\ i' = 1
    /\ UNCHANGED <<c, schema, protoFile, enumSource, msgSource, tm, returned, args, err, parserVars>>

\* mappedTypes of Convert: the type of every field of every message.
MappedTypes(messages) ==
    Concat([m \in 1..Len(messages) |->
              [f \in 1..Len(messages[m].Fields) |-> messages[m].Fields[f].Type]])

\* The epilogue: the imports, and the return of protoFile with a nil error.
Finish ==
    /\ pc = "imports"
    /\ \E order \in ImportOrders(RequiredImportSet(MappedTypes(protoFile.Messages))) :
          protoFile' = [protoFile EXCEPT !.Imports = order]
    /\ pc' = "done"
    /\ UNCHANGED <<c, schema, i, enumSource, msgSource, tm, returned, args, err, parserVars>>

(***************************************************************************)
(* The schemas Convert is run on.  The parser hands over any tree the XML  *)
(* decoder can build (Validate only refuses empty names), so a declaration *)
(* is drawn from a pool, in any order and with repeats, MaxDecls of them   *)
(* at most.  Schema.Imports, Includes and ImportedSchemas and an element's *)
(* inline SimpleType are left out: the converter never reads them.         *)
(***************************************************************************)
MaxDecls == 4

Xs(name) == <<"x", "s", ":">> \o name

Tns(name) == <<"t", "n", "s", ":">> \o name

Element(name, type, minOccurs, maxOccurs) ==
    [Name |-> name, Type |-> type, MinOccurs |-> minOccurs, MaxOccurs |-> maxOccurs,
     ComplexType |-> NilPtr]

Attribute(name, type, use) == [Name |-> name, Type |-> type, Use |-> use]

Sequence(elements) == Ptr([Elements |-> elements])

Choice(elements) == Ptr([Elements |-> elements])

ComplexType(name, sequence, choice, attributes) ==
    [Name |-> name, Sequence |-> sequence, Choice |-> choice, Attributes |-> attributes]

Enumeration(value) == [Value |-> value]

SimpleType(name, restriction) == [Name |-> name, Restriction |-> restriction]

Restriction(values) ==
    Ptr([Enumerations |-> [k \in 1..Len(values) |-> Enumeration(values[k])]])

\* The names and values the schemas are made of.
Nm ==
    [
      Status           |-> <<"S", "t", "a", "t", "u", "s">>,
      status           |-> <<"s", "t", "a", "t", "u", "s">>,
      Status2          |-> <<"S", "t", "a", "t", "u", "s", "2">>,
      user             |-> <<"u", "s", "e", "r">>,
      userRole         |-> <<"u", "s", "e", "r", "R", "o", "l", "e">>,
      Person           |-> <<"P", "e", "r", "s", "o", "n">>,
      person           |-> <<"p", "e", "r", "s", "o", "n">>,
      ArrayOfFoo       |-> <<"A", "r", "r", "a", "y", "O", "f", "F", "o", "o">>,
      Foo              |-> <<"F", "o", "o">>,
      firstName        |-> <<"f", "i", "r", "s", "t", "N", "a", "m", "e">>,
      tags             |-> <<"t", "a", "g", "s">>,
      created          |-> <<"c", "r", "e", "a", "t", "e", "d">>,
      foos             |-> <<"f", "o", "o", "s">>,
      id               |-> <<"i", "d">>,
      first_name       |-> <<"f", "i", "r", "s", "t", "-", "n", "a", "m", "e">>,
      ttl_max          |-> <<"t", "t", "l", ".", "M", "a", "x">>,
      owner            |-> <<"o", "w", "n", "e", "r">>,
      state            |-> <<"s", "t", "a", "t", "e">>,
      item             |-> <<"i", "t", "e", "m">>,
      count            |-> <<"c", "o", "u", "n", "t">>,
      active           |-> <<"a", "c", "t", "i", "v", "e">>,
      ACTIVE           |-> <<"A", "C", "T", "I", "V", "E">>,
      role_unspecified |-> <<"r", "o", "l", "e", "_", "u", "n", "s", "p", "e", "c", "i", "f", "i", "e", "d">>,
      unspecified      |-> <<"u", "n", "s", "p", "e", "c", "i", "f", "i", "e", "d">>,
      admin            |-> <<"a", "d", "m", "i", "n">>,
      example_com      |-> <<"e", "x", "a", "m", "p", "l", "e", ".", "c", "o", "m">>,
      simple           |-> <<"s", "i", "m", "p", "l", "e">>,
      v1               |-> <<"v", "1">>,
      exampleNamespace |-> <<"h", "t", "t", "p", ":", "/", "/", "e", "x", "a", "m", "p", "l", "e", ".", "c", "o", "m", "/", "s", "i", "m", "p", "l", "e">> ]

SimpleTypePool ==
    { SimpleType(Nm.Status, Restriction(<<Nm.ACTIVE, Nm.active>>)),
      SimpleType(Nm.status, Restriction(<<Nm.active>>)),
      SimpleType(Nm.user, Restriction(<<Nm.role_unspecified>>)),
      SimpleType(Nm.userRole, Restriction(<<Nm.unspecified, Nm.admin>>)),
      SimpleType(Nm.Person, NilPtr),
      SimpleType(Nm.status, Restriction(<<>>)) }

ComplexTypePool ==
    { ComplexType(Nm.Person,
          Sequence(<<Element(Nm.firstName, Xs(Lit.string), "", ""),
                     Element(Nm.tags, Xs(Lit.string), "0", "unbounded")>>),
          NilPtr,
          <<Attribute(Nm.first_name, Xs(Lit.ID), "required")>>),
      ComplexType(Nm.person,
          Sequence(<<Element(Nm.created, Xs(Lit.dateTime), "0", "1")>>),
          Choice(<<Element(Nm.ttl_max, Lit.duration, "", "unbounded"),
                   Element(Nm.foos, Tns(Nm.ArrayOfFoo), "", "")>>),
          <<>>),
      ComplexType(Nm.Status,
          Sequence(<<Element(Nm.owner, Tns(Nm.Person), "", ""),
                     Element(Nm.state, Tns(Nm.status), "1", "1")>>),
          NilPtr,
          <<Attribute(Nm.foos, Tns(Nm.ArrayOfFoo), "")>>),
      ComplexType(Nm.Status2,
          Sequence(<<Element(Nm.foos, Nm.ArrayOfFoo, "0", ""),
                     Element(Nm.state, Tns(Nm.Status), "1", "2")>>),
          NilPtr,
          <<>>),
      ComplexType(Nm.ArrayOfFoo,
          Sequence(<<Element(Nm.Foo, Tns(Nm.Foo), "0", "unbounded")>>),
          NilPtr,
          <<>>),
      ComplexType(Nm.ArrayOfFoo,
          Sequence(<<Element(Nm.item, Xs(Lit.date), "", "5")>>),
          NilPtr,
          <<Attribute(Nm.count, Xs(Lit.int), "optional")>>),
      ComplexType(Nm.ArrayOfFoo,
          Sequence(<<Element(Nm.Foo, Tns(Nm.Foo), "", "")>>),
          NilPtr,
          <<>>) }

\* A top-level element: with an anonymous inline complex type, with a named
\* one (the decoder reads a name attribute wherever it stands), with none.
InlineElement(name, complexType) ==
    [Name |-> name, Type |-> <<>>, MinOccurs |-> "", MaxOccurs |-> "",
     ComplexType |-> Ptr(complexType)]

ElementPool ==
    { InlineElement(Nm.person,
          ComplexType(<<>>,
              Sequence(<<Element(Nm.firstName, Xs(Lit.string), "", ""),
                         Element(Nm.state, Nm.Status, "", "")>>),
              NilPtr,
              <<Attribute(Nm.id, Xs(Lit.ID), "")>>)),
      InlineElement(Nm.foos,
          ComplexType(Nm.ArrayOfFoo,
              Sequence(<<Element(Nm.Foo, Tns(Nm.Foo), "", "unbounded")>>),
              NilPtr,
              <<>>)),
      InlineElement(Nm.state,
          ComplexType(Nm.Status2,
              NilPtr,
              Choice(<<Element(Nm.active, Xs(Lit.boolean), "", "")>>),
              <<>>)),
      Element(Nm.owner, Tns(Nm.Person), "", "") }

NamespacePool == {Nm.exampleNamespace}

Init ==
    /\ c = New
    /\ \E nSimple \in 0..MaxDecls :
       \E nComplex \in 0..(MaxDecls - nSimple) :
       \E nElements \in 0..(MaxDecls - nSimple - nComplex) :
       \E simpleTypes \in [1..nSimple -> SimpleTypePool] :
       \E complexTypes \in [1..nComplex -> ComplexTypePool] :
       \E elements \in [1..nElements -> ElementPool] :
       \E targetNamespace \in NamespacePool :
          schema = [ TargetNamespace |-> targetNamespace,
                     Elements        |-> elements,
                     ComplexTypes    |-> complexTypes,
                     SimpleTypes     |-> simpleTypes ]
    /\ protoFile = NoProtoFile
    /\ pc = "start"
    /\ i = 0
    /\ enumSource = <<>>
    /\ msgSource = <<>>
    /\ tm = NoMapping
    /\ returned = <<>>
    /\ args = {}
    /\ err = NilPtr
    /\ ParserIdle

Next ==
    \/ Begin
    \/ FirstPass
    \/ FirstPassEnd
    \/ SecondPass
    \/ SecondPassEnd
    \/ ThirdPass
    \/ ThirdPassEnd
    \/ Finish

Spec == Init /\ [][Next]_vars

(***************************************************************************)
(* The type mapper called on its own, on a type name made of a namespace   *)
(* prefix and a local name.                                                *)
(***************************************************************************)
TypePrefixes ==
    { <<>>, <<"x", "s", ":">>, <<"t", "n", "s", ":">>, <<"a", ":", "b", ":">> }

TypeNames ==
    builtInTypes \cup {Lit.bool, Lit.int32, Lit.bytes, Nm.Person, Nm.ArrayOfFoo, <<>>}

EmptySchema ==
    [TargetNamespace |-> <<>>, Elements |-> <<>>, ComplexTypes |-> <<>>, SimpleTypes |-> <<>>]

InitTypeMapper ==
    /\ c = New
    /\ schema = EmptySchema
    /\ protoFile = NoProtoFile
    /\ pc = "start"
    /\ i = 0
    /\ enumSource = <<>>
    /\ msgSource = <<>>
    /\ tm = NoMapping
    /\ returned = <<>>
    /\ args = {}
    /\ err = NilPtr
    /\ ParserIdle

MapType ==
    /\ \E prefix \in TypePrefixes, name \in TypeNames :
          tm' = [prefix |-> prefix, name |-> name, result |-> MapXSDType(prefix \o name)]
    /\ UNCHANGED <<c, schema, protoFile, pc, i, enumSource, msgSource, returned, args, err, parserVars>>

NextTypeMapper == MapType

SpecTypeMapper == InitTypeMapper /\ [][NextTypeMapper]_vars

(***************************************************************************)
(* Convert on schemas that differ by their target namespace: a scheme      *)
(* followed by at most MaxSegments segments, empty ones included, that "/" *)
(* separates, and urn: followed by such segments that ":" separates.  Each *)
(* schema has one simple type, one complex type and one element.           *)
(***************************************************************************)
MaxSegments == 3

Segments == {<<>>, Nm.example_com, Nm.simple, Nm.v1}

SegmentSeqs == UNION { [1..n -> Segments] : n \in 1..MaxSegments }

\* The segments with the separator between each two of them.
RECURSIVE JoinWith(_, _)
JoinWith(segments, separator) ==
    IF Len(segments) = 1 THEN segments[1]
    ELSE segments[1] \o <<separator>> \o JoinWith(Tail(segments), separator)

Schemes == {Lit.httpScheme, Lit.httpsScheme, Lit.dotSlash, <<>>}

PathNamespaces ==
    { scheme \o JoinWith(segments, "/") : scheme \in Schemes, segments \in SegmentSeqs }

UrnNamespaces == { Lit.urnColon \o JoinWith(segments, ":") : segments \in SegmentSeqs }

InitPackageName ==
    /\ c = New
    /\ \E targetNamespace \in PathNamespaces \cup UrnNamespaces :
          schema = [ TargetNamespace |-> targetNamespace,
                     Elements        |-> <<InlineElement(Nm.state,
                                               ComplexType(<<>>, NilPtr, NilPtr, <<>>))>>,
                     ComplexTypes    |-> <<ComplexType(Nm.Person, NilPtr, NilPtr, <<>>)>>,
                     SimpleTypes     |-> <<SimpleType(Nm.status, Restriction(<<Nm.active>>))>> ]
    /\ protoFile = NoProtoFile
    /\ pc = "start"
    /\ i = 0
    /\ enumSource = <<>>
    /\ msgSource = <<>>
    /\ tm = NoMapping
    /\ returned = <<>>
    /\ args = {}
    /\ err = NilPtr
    /\ ParserIdle

SpecPackageName == InitPackageName /\ [][Next]_vars

(***************************************************************************)
(* One Converter converting one schema after another.  New is called once; *)
(* each call of Convert after the first finds the Converter as the call    *)
(* before it left it.  A schema has at most one simple type, one complex   *)
(* type and one element.                                                   *)
(***************************************************************************)
MaxConversions == 2

ReuseSchemas ==
    { [ TargetNamespace |-> Nm.exampleNamespace,
        Elements        |-> elements,
        ComplexTypes    |-> complexTypes,
        SimpleTypes     |-> simpleTypes ] :
      simpleTypes \in { <<>>,
                        <<SimpleType(Nm.Status, Restriction(<<Nm.ACTIVE, Nm.active>>))>>,
                        <<SimpleType(Nm.user, Restriction(<<Nm.role_unspecified>>))>>,
                        <<SimpleType(Nm.userRole, Restriction(<<Nm.unspecified, Nm.admin>>))>> },
      complexTypes \in { <<>>,
                         <<ComplexType(Nm.Person,
                               Sequence(<<Element(Nm.firstName, Xs(Lit.string), "", "")>>),
                               NilPtr,
                               <<>>)>>,
                         <<ComplexType(Nm.Status,
                               Sequence(<<Element(Nm.owner, Tns(Nm.Person), "", "")>>),
                               NilPtr,
                               <<>>)>> },
      elements \in { <<>>,
                     <<InlineElement(Nm.person,
                           ComplexType(<<>>,
                               NilPtr,
                               Choice(<<Element(Nm.active, Xs(Lit.boolean), "", "")>>),
                               <<>>))>> } }

InitReuse ==
    /\ c = New
    /\ schema \in ReuseSchemas
    /\ protoFile = NoProtoFile
    /\ pc = "start"
    /\ i = 0
    /\ enumSource = <<>>
    /\ msgSource = <<>>
    /\ tm = NoMapping
    /\ returned = <<>>
    /\ args = {}
    /\ err = NilPtr
    /\ ParserIdle

\* ConvertAgain on a Converter that New has just made.
ConvertAgain_onNewConverter ==
    /\ pc = "done"
    /\ Len(returned) + 1 < MaxConversions
    /\ returned' = Append(returned, protoFile)
    /\ schema' \in ReuseSchemas
    /\ c' = New
    /\ protoFile' = NoProtoFile
    /\ pc' = "start"
    /\ i' = 0
    /\ enumSource' = <<>>
    /\ msgSource' = <<>>
    /\ UNCHANGED <<tm, args, err, parserVars>>

\* Convert has returned and the caller calls it again, on the same
\* Converter, with another schema.
ConvertAgain ==
    /\ pc = "done"
    /\ Len(returned) + 1 < MaxConversions
    /\ returned' = Append(returned, protoFile)
    /\ schema' \in ReuseSchemas
    /\ protoFile' = NoProtoFile
    /\ pc' = "start"
    /\ i' = 0
    /\ enumSource' = <<>>
    /\ msgSource' = <<>>
    /\ UNCHANGED <<c, tm, args, err, parserVars>>

NextReuse == Next \/ ConvertAgain

SpecReuse == InitReuse /\ [][NextReuse]_vars

(***************************************************************************)
(* cmd/xsd2proto: main parses the command line and, when it is well        *)
(* formed, converts the one input file with a Converter it makes for the   *)
(* run.  A command line is a set of flags that take no value (-o and -p    *)
(* take one and touch only the output path and the go_package option) and  *)
(* one input file that exists; schema is what the parser makes of it.      *)
(***************************************************************************)
\* The flags main defines.
DefinedFlags == {"o", "p", "v", "h", "version", "no-header"}

\* The flags a command line is made of: those of the documentation.
CommandLineFlags == {"v", "h", "version", "no-header", "camel-case", "pascal-case"}

InitMain ==
    /\ c = New
    /\ schema \in ReuseSchemas
    /\ protoFile = NoProtoFile
    /\ pc = "main"
    /\ i = 0
    /\ enumSource = <<>>
    /\ msgSource = <<>>
    /\ tm = NoMapping
    /\ returned = <<>>
    /\ args \in SUBSET CommandLineFlags
    /\ err = NilPtr
    /\ ParserIdle

\* main up to the call of Convert.  flag.Parse on the default flag set
\* prints the usage and exits with status 2 at a flag that is not defined;
\* -version and -h exit with status 0; convertXSD makes the Converter with
\* New and calls no setter of it.
Main ==
    /\ pc = "main"
    /\ pc' = IF ~(args \subseteq DefinedFlags) THEN "exit2"
             ELSE IF "version" \in args \/ "h" \in args THEN "exit0"
             ELSE "start"
    /\ c' = New
    /\ UNCHANGED <<schema, protoFile, i, enumSource, msgSource, tm, returned, args, err, parserVars>>

NextMain == Main \/ Next

SpecMain == InitMain /\ [][NextMain]_vars

(***************************************************************************)
(* Convert on schemas whose one top-level complex type takes every shape   *)
(* the array-wrapper test looks at or leaves unlooked at: its name, its    *)
(* sequence (none, or of no, one or two elements, the first with each      *)
(* upper bound), its choice and its attributes.  Each schema has one       *)
(* simple type and one element as well.                                    *)
(***************************************************************************)
WrapperNames == {Nm.ArrayOfFoo, Lit.ArrayOf, Tns(Nm.ArrayOfFoo), Nm.Person}

WrapperBounds == {"", "0", "1", "2", "unbounded"}

WrapperSequences ==
    {NilPtr, Sequence(<<>>)}
        \cup { Sequence(<<Element(Nm.Foo, Tns(Nm.Foo), "", maxOccurs)>>) :
               maxOccurs \in WrapperBounds }
        \cup { Sequence(<<Element(Nm.Foo, Tns(Nm.Foo), "", maxOccurs),
                          Element(Nm.count, Xs(Lit.int), "", "")>>) :
               maxOccurs \in WrapperBounds }

WrapperChoices == {NilPtr, Choice(<<Element(Nm.active, Xs(Lit.boolean), "", "")>>)}

WrapperAttributes == {<<>>, <<Attribute(Nm.count, Xs(Lit.int), "optional")>>}

InitWrapper ==
    /\ c = New
    /\ \E name \in WrapperNames, sequence \in WrapperSequences,
          choice \in WrapperChoices, attributes \in WrapperAttributes :
          schema = [ TargetNamespace |-> Nm.exampleNamespace,
                     Elements        |-> <<InlineElement(Nm.state,
                                               ComplexType(<<>>, NilPtr, NilPtr, <<>>))>>,
                     ComplexTypes    |-> <<ComplexType(name, sequence, choice, attributes)>>,
                     SimpleTypes     |-> <<SimpleType(Nm.status, Restriction(<<Nm.active>>))>> ]
    /\ protoFile = NoProtoFile
    /\ pc = "start"
    /\ i = 0
    /\ enumSource = <<>>
    /\ msgSource = <<>>
    /\ tm = NoMapping
    /\ returned = <<>>
    /\ args = {}
    /\ err = NilPtr
    /\ ParserIdle

SpecWrapper == InitWrapper /\ [][Next]_vars
\* The paths, schema locations and namespaces of the files below.
Fs ==
    [
      cwd              |-> <<"/", "w">>,
      root             |-> <<"/">>,
      sub              |-> <<"/", "w", "/", "s", "u", "b">>,
      a                |-> <<"/", "w", "/", "a", ".", "x", "s", "d">>,
      b                |-> <<"/", "w", "/", "b", ".", "x", "s", "d">>,
      c                |-> <<"/", "w", "/", "s", "u", "b", "/", "c", ".", "x", "s", "d">>,
      a_xsd            |-> <<"a", ".", "x", "s", "d">>,
      b_xsd            |-> <<"b", ".", "x", "s", "d">>,
      sub_c_xsd        |-> <<"s", "u", "b", "/", "c", ".", "x", "s", "d">>,
      dot_sub_c_xsd    |-> <<".", "/", "s", "u", "b", "/", "c", ".", "x", "s", "d">>,
      c_xsd            |-> <<"c", ".", "x", "s", "d">>,
      up_a_xsd         |-> <<".", ".", "/", "a", ".", "x", "s", "d">>,
      up_b_xsd         |-> <<".", ".", "/", "b", ".", "x", "s", "d">>,
      up_w_a_xsd       |-> <<".", ".", "/", "w", "/", "a", ".", "x", "s", "d">>,
      up_w_b_xsd       |-> <<".", ".", "/", "w", "/", "b", ".", "x", "s", "d">>,
      missing_xsd      |-> <<"m", "i", "s", "s", "i", "n", "g", ".", "x", "s", "d">>,
      dot              |-> <<".">>,
      dotdot           |-> <<".", ".">>,
      xsd              |-> <<".", "x", "s", "d">>,
      ns_b             |-> <<".", "/", "b">>,
      ns_sub_c         |-> <<".", "/", "s", "u", "b", "/", "c">>,
      ns_http_missing  |-> <<"h", "t", "t", "p", ":", "/", "/", "m", "i", "s", "s", "i", "n", "g">>,
      ns_https_b       |-> <<"h", "t", "t", "p", "s", ":", "/", "/", "b">>,
      ns_a             |-> <<"a">>
    ]

(***************************************************************************)
(* internal/parser: ParseFileWithImports.  A path is a string with "/"     *)
(* between its segments; the working directory is /w.  The file system has *)
(* the directories /, /w and /w/sub and the files /w/a.xsd, /w/b.xsd and   *)
(* /w/sub/c.xsd, without links.                                            *)
(***************************************************************************)
\* Once(v, Body) is Body(v), v being computed once however often Body
\* reads it.
Once(value, Body(_)) == CHOOSE r \in { Body(x) : x \in {value} } : TRUE

RECURSIVE JoinSlashes(_)
JoinSlashes(parts) ==
    IF parts = <<>> THEN <<>>
    ELSE IF Len(parts) = 1 THEN parts[1]
    ELSE parts[1] \o <<"/">> \o JoinSlashes(Tail(parts))

\* filepath.Clean, segment by segment: empty segments and "." go, ".."
\* takes the segment before it away, stays at the start of a relative
\* path and goes at the root.
RECURSIVE CleanSegments(_, _, _)
CleanSegments(segments, rooted, out) ==
    IF segments = <<>> THEN out
    ELSE IF Head(segments) = <<>> \/ Head(segments) = Fs.dot
    THEN CleanSegments(Tail(segments), rooted, out)
    ELSE IF Head(segments) = Fs.dotdot
    THEN IF out # <<>> /\ out[Len(out)] # Fs.dotdot
         THEN CleanSegments(Tail(segments), rooted, SubSeq(out, 1, Len(out) - 1))
         ELSE IF rooted THEN CleanSegments(Tail(segments), rooted, out)
         ELSE CleanSegments(Tail(segments), rooted, Append(out, Fs.dotdot))
    ELSE CleanSegments(Tail(segments), rooted, Append(out, Head(segments)))

Clean(path) ==
    Once(path, LAMBDA p :
        IF p = <<>> THEN Fs.dot
        ELSE Once(Split(p, "/"), LAMBDA segments :
             Once(CleanSegments(segments, p[1] = "/", <<>>), LAMBDA out :
                 IF p[1] = "/" THEN <<"/">> \o JoinSlashes(out)
                 ELSE IF out = <<>> THEN Fs.dot
                 ELSE JoinSlashes(out))))

\* filepath.Join of two elements
Join(dir, name) ==
    IF dir = <<>> /\ name = <<>> THEN <<>>
    ELSE IF dir = <<>> THEN Clean(name)
    ELSE IF name = <<>> THEN Clean(dir)
    ELSE Clean(dir \o <<"/">> \o name)

\* filepath.Dir
Dir(path) == Once(path, LAMBDA p : Clean(SubSeq(p, 1, LastIndex(p, "/"))))

\* filepath.Abs taking the path as it is written.
Abs_asWritten(path) == path

\* filepath.Abs: the error is nil, os.Getwd giving /w.
Abs(path) ==
    Once(path, LAMBDA p :
        IF p # <<>> /\ p[1] = "/" THEN Clean(p) ELSE Join(Fs.cwd, p))

Directories == {Fs.root, Fs.cwd, Fs.sub}

FilePaths == {Fs.a, Fs.b, Fs.c}

\* What the operating system finds at a path: it walks the path from the
\* working directory.
Lookup(path) ==
    Once(path, LAMBDA p :
        Clean(IF p # <<>> /\ p[1] = "/" THEN p ELSE Fs.cwd \o <<"/">> \o p))

\* os.Stat(path) gives no error.
Stat(path) == Lookup(path) \in FilePaths \cup Directories

deriveFilePathFromNamespace(namespace, baseDir) ==
    IF namespace = <<>> THEN <<>>
    ELSE IF HasPrefix(namespace, Lit.dotSlash)
    THEN Join(baseDir, ReplaceAll(TrimPrefix(namespace, Lit.dotSlash), "/", ".") \o Fs.xsd)
    ELSE IF HasPrefix(namespace, Lit.httpScheme) \/ HasPrefix(namespace, Lit.httpsScheme)
    THEN Join(baseDir,
              ReplaceAll(TrimPrefix(TrimPrefix(namespace, Lit.httpScheme), Lit.httpsScheme),
                         "/", ".") \o Fs.xsd)
    ELSE Join(baseDir, ReplaceAll(namespace, "/", ".") \o Fs.xsd)

\* The path parseFileRecursive makes of an import, empty when it makes
\* none.
importPathOf(imp, baseDir) ==
    IF imp.SchemaLocation # <<>> THEN Join(baseDir, imp.SchemaLocation)
    ELSE IF imp.Namespace # <<>> THEN deriveFilePathFromNamespace(imp.Namespace, baseDir)
    ELSE <<>>

Import(namespace, schemaLocation) ==
    [Namespace |-> namespace, SchemaLocation |-> schemaLocation]

Include(schemaLocation) == [SchemaLocation |-> schemaLocation]

\* A file: whether xml.Decode accepts it, and its import and include
\* directives.
XsdFile(imports, includes) ==
    [wellFormed |-> TRUE, Imports |-> imports, Includes |-> includes]

Malformed == [wellFormed |-> FALSE, Imports |-> <<>>, Includes |-> <<>>]

FilePool ==
    [ a |-> { XsdFile(<<>>, <<>>),
              XsdFile(<<>>, <<Include(Fs.a_xsd)>>),
              XsdFile(<<Import(<<>>, Fs.b_xsd)>>, <<Include(Fs.sub_c_xsd)>>),
              XsdFile(<<Import(Fs.ns_b, <<>>), Import(Fs.ns_http_missing, <<>>)>>, <<>>),
              XsdFile(<<Import(<<>>, <<>>)>>, <<Include(Fs.up_w_a_xsd), Include(Fs.b_xsd)>>),
              XsdFile(<<>>, <<Include(Fs.missing_xsd)>>),
              Malformed },
      b |-> { XsdFile(<<>>, <<>>),
              XsdFile(<<Import(<<>>, Fs.a_xsd)>>, <<Include(Fs.b_xsd)>>),
              XsdFile(<<Import(Fs.ns_sub_c, <<>>)>>, <<Include(Fs.dot_sub_c_xsd), Include(<<>>)>>),
              XsdFile(<<Import(Fs.ns_a, <<>>), Import(<<>>, Fs.up_w_b_xsd)>>, <<>>),
              Malformed },
      c |-> { XsdFile(<<>>, <<>>),
              XsdFile(<<Import(<<>>, Fs.up_a_xsd)>>, <<>>),
              XsdFile(<<Import(<<>>, Fs.up_b_xsd)>>, <<Include(Fs.c_xsd)>>),
              XsdFile(<<Import(<<>>, Fs.dotdot)>>, <<>>) } ]

\* The paths ParseFileWithImports is called with.
StartPaths == {Fs.a_xsd, Fs.sub_c_xsd, Fs.up_w_b_xsd, Fs.a}

\* A call of parseFileRecursive that has not begun.
Call(filePath) ==
    [filePath |-> filePath, at |-> "enter", k |-> 0,
     schema |-> [file |-> <<>>, ImportedSchemas |-> <<>>]]

InitParser ==
    /\ c = New
    /\ schema = [TargetNamespace |-> <<>>, Elements |-> <<>>,
                 ComplexTypes |-> <<>>, SimpleTypes |-> <<>>]
    /\ protoFile = NoProtoFile
    /\ pc = "parse"
    /\ i = 0
    /\ enumSource = <<>>
    /\ msgSource = <<>>
    /\ tm = NoMapping
    /\ returned = <<>>
    /\ args = {}
    /\ err = NilPtr
    /\ \E a \in FilePool.a, b \in FilePool.b, d \in FilePool.c :
          files = (Fs.a :> a) @@ (Fs.b :> b) @@ (Fs.c :> d)
    /\ processedFiles = {}
    /\ \E filePath \in StartPaths : stack = <<Call(filePath)>>
    /\ opened = <<>>
    /\ result = NilPtr

converterVars ==
    <<c, schema, protoFile, pc, i, enumSource, msgSource, tm, returned, args, err>>

\* The innermost call returns value, nil or a schema, and a nil error: its
\* caller appends a schema to ImportedSchemas and goes on to its next
\* directive; ParseFileWithImports returns what the outermost call returns.
ReturnValue(value) ==
    IF Len(stack) = 1
    THEN /\ stack' = <<>>
         /\ result' = [schema |-> value, err |-> NilPtr]
    ELSE /\ stack' = [SubSeq(stack, 1, Len(stack) - 1) EXCEPT
                         ![Len(stack) - 1].schema.ImportedSchemas =
                             IF value # NilPtr THEN Append(@, Deref(value)) ELSE @,
                         ![Len(stack) - 1].k = @ + 1]
         /\ UNCHANGED result

\* The innermost call returns an error: every call in progress returns an
\* error that wraps it, and so does ParseFileWithImports.
ReturnError(text) ==
    /\ stack' = <<>>
    /\ result' = [schema |-> NilPtr, err |-> Ptr(text)]

\* parseFileRecursive on a path whose absolute path is in processedFiles.
EnterProcessed ==
    /\ stack # <<>>
    /\ stack[Len(stack)].at = "enter"
    /\ Abs(stack[Len(stack)].filePath) \in processedFiles
    /\ ReturnValue(NilPtr)
    /\ UNCHANGED <<files, processedFiles, opened, converterVars>>

\* parseFileRecursive on another path: the entry in processedFiles, then
\* ParseFile.
EnterParse ==
    /\ stack # <<>>
    /\ stack[Len(stack)].at = "enter"
    /\ Abs(stack[Len(stack)].filePath) \notin processedFiles
    /\ processedFiles' = processedFiles \cup {Abs(stack[Len(stack)].filePath)}
    /\ \E found \in {Lookup(stack[Len(stack)].filePath)} :
           /\ opened' = Append(opened, found)
           /\ IF found \notin FilePaths
              THEN ReturnError("failed to open XSD file")
              ELSE IF ~files[found].wellFormed
              THEN ReturnError("failed to parse XSD")
              ELSE /\ stack' = [stack EXCEPT ![Len(stack)].at = "imports",
                                             ![Len(stack)].k = 1,
                                             ![Len(stack)].schema.file = found]
                   /\ UNCHANGED result
    /\ UNCHANGED <<files, converterVars>>

\* An iteration of the loop over schema.Imports.
ImportStep ==
    /\ stack # <<>>
    /\ stack[Len(stack)].at = "imports"
    /\ stack[Len(stack)].k <= Len(files[stack[Len(stack)].schema.file].Imports)
    /\ \E importPath \in
             {importPathOf(files[stack[Len(stack)].schema.file].Imports[stack[Len(stack)].k],
                           Dir(stack[Len(stack)].filePath))} :
           IF importPath # <<>> /\ Stat(importPath)
           THEN stack' = Append(stack, Call(importPath))
           ELSE stack' = [stack EXCEPT ![Len(stack)].k = @ + 1]
    /\ UNCHANGED <<files, processedFiles, opened, result, converterVars>>

ImportsEnd ==
    /\ stack # <<>>
    /\ stack[Len(stack)].at = "imports"
    /\ stack[Len(stack)].k > Len(files[stack[Len(stack)].schema.file].Imports)
    /\ stack' = [stack EXCEPT ![Len(stack)].at = "includes", ![Len(stack)].k = 1]
    /\ UNCHANGED <<files, processedFiles, opened, result, converterVars>>

\* An iteration of the loop over schema.Includes.
IncludeStep ==
    /\ stack # <<>>
    /\ stack[Len(stack)].at = "includes"
    /\ stack[Len(stack)].k <= Len(files[stack[Len(stack)].schema.file].Includes)
    /\ \E inc \in {files[stack[Len(stack)].schema.file].Includes[stack[Len(stack)].k]} :
           IF inc.SchemaLocation # <<>>
           THEN \E includePath \in {Join(Dir(stack[Len(stack)].filePath), inc.SchemaLocation)} :
                    stack' = Append(stack, Call(includePath))
           ELSE stack' = [stack EXCEPT ![Len(stack)].k = @ + 1]
    /\ UNCHANGED <<files, processedFiles, opened, result, converterVars>>

\* return schema, nil
ReturnSchema ==
    /\ stack # <<>>
    /\ stack[Len(stack)].at = "includes"
    /\ stack[Len(stack)].k > Len(files[stack[Len(stack)].schema.file].Includes)
    /\ ReturnValue(Ptr(stack[Len(stack)].schema))
    /\ UNCHANGED <<files, processedFiles, opened, converterVars>>

NextParser ==
    \/ EnterProcessed
    \/ EnterParse
    \/ ImportStep
    \/ ImportsEnd
    \/ IncludeStep
    \/ ReturnSchema

SpecParser == InitParser /\ [][NextParser]_vars

\* The call runs on: a step that can be taken is taken.
SpecParserLive == SpecParser /\ WF_vars(NextParser)

(***************************************************************************)
(* Properties of the conversion.  The operators below read the result and  *)
(* the schema; they are written from the statement of each property, not   *)
(* from the converter.                                                     *)
(***************************************************************************)
Range(s) == {s[k] : k \in DOMAIN s}

NoDuplicates(s) == \A a, b \in DOMAIN s : a # b => s[a] # s[b]

EnumNames == [k \in DOMAIN protoFile.Enums |-> protoFile.Enums[k].Name]

MessageNames == [k \in DOMAIN protoFile.Messages |-> protoFile.Messages[k].Name]

\* The simple type the k-th emitted enum was made from.
SourceOfEnum(k) == schema.SimpleTypes[enumSource[k]]

\* The complex type the k-th emitted message was made from.
SourceOfMessage(k) ==
    IF msgSource[k].pass = "complexTypes"
    THEN schema.ComplexTypes[msgSource[k].index]
    ELSE Deref(schema.Elements[msgSource[k].index].ComplexType)

GroupElements(group) == IF group = NilPtr THEN <<>> ELSE Deref(group).Elements

\* The sequence elements, the choice elements and the attributes of a
\* complex type, in that order: their names and their declared types.
DeclaredNames(complexType) ==
    [k \in DOMAIN GroupElements(complexType.Sequence) |->
        GroupElements(complexType.Sequence)[k].Name]
    \o [k \in DOMAIN GroupElements(complexType.Choice) |->
        GroupElements(complexType.Choice)[k].Name]
    \o [k \in DOMAIN complexType.Attributes |-> complexType.Attributes[k].Name]

DeclaredTypes(complexType) ==
    [k \in DOMAIN GroupElements(complexType.Sequence) |->
        GroupElements(complexType.Sequence)[k].Type]
    \o [k \in DOMAIN GroupElements(complexType.Choice) |->
        GroupElements(complexType.Choice)[k].Type]
    \o [k \in DOMAIN complexType.Attributes |-> complexType.Attributes[k].Type]

HasEnumerations(simpleType) ==
    /\ simpleType.Restriction # NilPtr
    /\ Len(Deref(simpleType.Restriction).Enumerations) >= 1

\* The first loop of Convert is past the s-th simple type.
SimpleTypeDone(s) == pc # "start" /\ (pc = "simpleTypes" => s < i)

\* The third loop of Convert is past the e-th element.
ElementDone(e) == pc \in {"imports", "done"} \/ (pc = "elements" /\ e < i)

\* The smallest n >= from for which base followed by n is not in taken.
LeastFree(base, from, taken) ==
    CHOOSE n \in from..(from + Cardinality(taken)) :
        /\ (base \o Itoa(n)) \notin taken
        /\ \A m \in from..(n - 1) : (base \o Itoa(m)) \in taken

ScreamingSnake(name) == ToUpper(toSnakeCase(name))

\* C1: in every conversion by a fresh engine the names of the emitted enums
\* and messages, taken together, are pairwise distinct, also when source
\* names format to the same PascalCase name and when a simple type and a
\* complex type share a source name.
C1_NamesPairwiseDistinct == NoDuplicates(EnumNames \o MessageNames)

\* A finished conversion with an enum and a message made from one source
\* name, and two enums made from source names that differ only by case.
C1_Witness ==
    /\ pc = "done"
    /\ \E e \in DOMAIN protoFile.Enums, m \in DOMAIN protoFile.Messages :
          SourceOfEnum(e).Name = SourceOfMessage(m).Name
    /\ \E a, b \in DOMAIN protoFile.Enums :
          /\ SourceOfEnum(a).Name # SourceOfEnum(b).Name
          /\ toPascalCase(SourceOfEnum(a).Name) = toPascalCase(SourceOfEnum(b).Name)

\* C2: every emitted message with N fields numbers them 1..N, the sequence
\* elements first, then the choice elements, then the attributes, each in
\* declaration order, whatever was converted before the message.
C2_FieldNumbers ==
    \A m \in DOMAIN protoFile.Messages :
        LET fields == protoFile.Messages[m].Fields
            names  == DeclaredNames(SourceOfMessage(m))
        IN  /\ Len(fields) = Len(names)
            /\ \A f \in DOMAIN fields :
                  /\ fields[f].Number = f
                  /\ fields[f].Name = toSnakeCase(names[f])

\* A finished conversion whose second or later message has a sequence, a
\* choice and fields numbered from 1 after a message of two fields or
\* more, and one of whose messages has attributes after a sequence.
C2_Witness ==
    /\ pc = "done"
    /\ \E m \in DOMAIN protoFile.Messages :
          /\ m >= 2
          /\ Len(protoFile.Messages[m - 1].Fields) >= 2
          /\ SourceOfMessage(m).Sequence # NilPtr
          /\ SourceOfMessage(m).Choice # NilPtr
          /\ protoFile.Messages[m].Fields[1].Number = 1
    /\ \E m \in DOMAIN protoFile.Messages :
          /\ SourceOfMessage(m).Sequence # NilPtr
          /\ SourceOfMessage(m).Attributes # <<>>

\* The names of the values of the enums emitted before the e-th.
ValuesBefore(e) ==
    UNION { { protoFile.Enums[d].Values[v].Name : v \in DOMAIN protoFile.Enums[d].Values } :
            d \in 1..(e - 1) }

MatchesArrayWrapperPattern(complexType) ==
    /\ HasPrefix(CleanTypeName(complexType.Name), Lit.ArrayOf)
    /\ complexType.Sequence # NilPtr
    /\ complexType.Choice = NilPtr
    /\ complexType.Attributes = <<>>
    /\ Len(Deref(complexType.Sequence).Elements) = 1
    /\ Deref(complexType.Sequence).Elements[1].MaxOccurs \notin {"", "0", "1"}

WrappersNamed(cleanName) ==
    { k \in DOMAIN schema.ComplexTypes :
        /\ CleanTypeName(schema.ComplexTypes[k].Name) = cleanName
        /\ MatchesArrayWrapperPattern(schema.ComplexTypes[k]) }

InnerTypeOfWrapper(cleanName) ==
    LET k     == CHOOSE k \in WrappersNamed(cleanName) : \A h \in WrappersNamed(cleanName) : k <= h
        inner == Deref(schema.ComplexTypes[k].Sequence).Elements[1].Type
    IN  IF CleanTypeName(inner) \in builtInTypes THEN MapXSDType(inner)
        ELSE toPascalCase(CleanTypeName(inner))

\* Every complex type of the schema that the converter takes for an array
\* wrapper matches the pattern as it is described.
OnlyDescribedWrappers ==
    \A k \in DOMAIN schema.ComplexTypes :
        isArrayOfPattern(schema.ComplexTypes[k]) => MatchesArrayWrapperPattern(schema.ComplexTypes[k])

\* C6: every field, be it made from a sequence element, a choice element
\* or an attribute, whose declared type has the cleaned name of an array
\* wrapper of the schema is repeated and has the wrapper's inner element
\* type.  (Schemas in which the converter and the description disagree on
\* what a wrapper is are left aside.)
C6_WrapperFieldsRepeated ==
    OnlyDescribedWrappers =>
        \A m \in DOMAIN protoFile.Messages :
            LET fields == protoFile.Messages[m].Fields
                types  == DeclaredTypes(SourceOfMessage(m))
            IN  \A f \in DOMAIN fields :
                   WrappersNamed(CleanTypeName(types[f])) # {}
                       => /\ fields[f].Label = FieldLabelRepeated
                          /\ fields[f].Type = InnerTypeOfWrapper(CleanTypeName(types[f]))

\* The part of C6 about the elements of sequences.
C6_SequenceFieldsRepeated ==
    OnlyDescribedWrappers =>
        \A m \in DOMAIN protoFile.Messages :
            LET fields == protoFile.Messages[m].Fields
                types  == DeclaredTypes(SourceOfMessage(m))
            IN  \A f \in 1..Len(GroupElements(SourceOfMessage(m).Sequence)) :
                   WrappersNamed(CleanTypeName(types[f])) # {}
                       => /\ fields[f].Label = FieldLabelRepeated
                          /\ fields[f].Type = InnerTypeOfWrapper(CleanTypeName(types[f]))

\* The field made from a choice element whose declared type names an array
\* wrapper is not repeated.
C6_ChoiceFieldNotRepeated ==
    \E m \in DOMAIN protoFile.Messages :
        LET source == SourceOfMessage(m)
            first  == Len(GroupElements(source.Sequence))
        IN  \E k \in DOMAIN GroupElements(source.Choice) :
               /\ WrappersNamed(CleanTypeName(GroupElements(source.Choice)[k].Type)) # {}
               /\ protoFile.Messages[m].Fields[first + k].Label # FieldLabelRepeated

Processed ==
    [e \in DOMAIN protoFile.Enums |->
        [source |-> SourceOfEnum(e).Name, final |-> protoFile.Enums[e].Name]]
    \o [m \in DOMAIN protoFile.Messages |->
        [source |-> SourceOfMessage(m).Name, final |-> protoFile.Messages[m].Name]]

FinalNamesBefore(k) == { Processed[j].final : j \in 1..(k - 1) }

FirstOfItsName(k) ==
    \A j \in 1..(k - 1) : toPascalCase(Processed[j].source) # toPascalCase(Processed[k].source)

OneOfSeveral(k) ==
    \E j \in DOMAIN Processed :
        j # k /\ toPascalCase(Processed[j].source) = toPascalCase(Processed[k].source)

TopLevelTypesFirst ==
    \A a, b \in DOMAIN msgSource :
        a < b => ~(msgSource[a].pass = "elements" /\ msgSource[b].pass = "complexTypes")

\* C8 as stated: of the declarations that format to one PascalCase name the
\* first processed has that name and each later one has it followed by the
\* smallest integer from 2 on that gives a name no enum or message has yet;
\* top-level complex types are processed before the elements' inline ones.
C8_FirstKeepsName ==
    /\ TopLevelTypesFirst
    /\ \A k \in DOMAIN Processed :
          LET formatted == toPascalCase(Processed[k].source)
          IN  OneOfSeveral(k) =>
                  Processed[k].final =
                      IF FirstOfItsName(k) THEN formatted
                      ELSE formatted \o Itoa(LeastFree(formatted, 2, FinalNamesBefore(k)))

\* C8: a declaration has the PascalCase name it formats to when no enum or
\* message processed before it has that final name, and otherwise that name
\* followed by the smallest integer from 2 on that gives a name none of
\* them has; top-level complex types are processed before the elements'
\* inline ones.
C8_UnusedKeepsName ==
    /\ TopLevelTypesFirst
    /\ \A k \in DOMAIN Processed :
          LET formatted == toPascalCase(Processed[k].source)
          IN  Processed[k].final =
                  IF formatted \notin FinalNamesBefore(k) THEN formatted
                  ELSE formatted \o Itoa(LeastFree(formatted, 2, FinalNamesBefore(k)))

\* A finished conversion in which the first of several declarations that
\* format to one name finds it taken, as the suffixed name of an earlier
\* declaration; the later one is an element's inline complex type, the
\* first a top-level complex type.
C8_Witness ==
    /\ pc = "done"
    /\ \E k \in DOMAIN Processed :
          /\ FirstOfItsName(k)
          /\ toPascalCase(Processed[k].source) \in FinalNamesBefore(k)
          /\ \E m \in DOMAIN msgSource :
                /\ msgSource[m].pass = "elements"
                /\ k < Len(protoFile.Enums) + m
                /\ toPascalCase(SourceOfMessage(m).Name) = toPascalCase(Processed[k].source)

\* The fixed table of the type mapper, row by row.
TableRow(name) ==
    CASE name \in {Lit.string, Lit.normalizedString, Lit.token, Lit.NMTOKEN,
                   Lit.Name, Lit.NCName, Lit.ID, Lit.IDREF} -> Lit.string
      [] name = Lit.boolean -> Lit.bool
      [] name \in {Lit.int, Lit.integer, Lit.short, Lit.byte, Lit.unsignedByte} -> Lit.int32
      [] name \in {Lit.long, Lit.unsignedInt} -> Lit.int64
      [] name = Lit.unsignedLong -> Lit.uint64
      [] name = Lit.unsignedShort -> Lit.uint32
      [] name = Lit.float -> Lit.float
      [] name \in {Lit.double, Lit.decimal} -> Lit.double
      [] name \in {Lit.dateTime, Lit.date, Lit.time} -> Lit.google_protobuf_Timestamp
      [] name = Lit.duration -> Lit.google_protobuf_Duration
      [] name = Lit.anyURI -> Lit.string
      [] name \in {Lit.base64Binary, Lit.hexBinary} -> Lit.bytes
      [] OTHER -> name

\* C9: with no custom mapping installed MapXSDType gives, for a type name
\* with or without a namespace prefix, the Protobuf type of the table row
\* of the name without its prefix, and that name itself when no row has
\* it; so a built-in name maps to one type with and without a prefix.
C9_MapsByTableRow == tm # NoMapping => tm.result = TableRow(tm.name)

\* A built-in name mapped under a prefix of two parts, to a type other
\* than the name itself.
C9_Witness ==
    /\ tm.prefix = <<"a", ":", "b", ":">>
    /\ tm.name = Lit.dateTime
    /\ tm.result = Lit.google_protobuf_Timestamp

\* The types of the fields of the emitted messages.
FieldTypes ==
    UNION { { protoFile.Messages[m].Fields[f].Type : f \in DOMAIN protoFile.Messages[m].Fields } :
            m \in DOMAIN protoFile.Messages }

\* The well-known types and the files that declare them.
WellKnownTypes ==
    { <<Lit.google_protobuf_Timestamp, "google/protobuf/timestamp.proto">>,
      <<Lit.google_protobuf_Duration, "google/protobuf/duration.proto">>,
      <<Lit.google_protobuf_Any, "google/protobuf/any.proto">>,
      <<Lit.google_protobuf_Empty, "google/protobuf/empty.proto">>,
      <<Lit.google_protobuf_Struct, "google/protobuf/struct.proto">>,
      <<Lit.google_protobuf_Value, "google/protobuf/struct.proto">>,
      <<Lit.google_protobuf_ListValue, "google/protobuf/struct.proto">>,
      <<Lit.google_protobuf_FieldMask, "google/protobuf/field_mask.proto">> }

\* C10: the import list of the output file has no duplicates and holds the
\* paths of the well-known types that are types of emitted fields, and no
\* other: timestamp.proto if and only if some field is a Timestamp,
\* duration.proto if and only if some field is a Duration.
C10_ImportsAsRequired ==
    pc = "done" =>
        /\ NoDuplicates(protoFile.Imports)
        /\ Range(protoFile.Imports) = { w[2] : w \in { x \in WellKnownTypes : x[1] \in FieldTypes } }
        /\ "google/protobuf/timestamp.proto" \in Range(protoFile.Imports)
              <=> Lit.google_protobuf_Timestamp \in FieldTypes
        /\ "google/protobuf/duration.proto" \in Range(protoFile.Imports)
              <=> Lit.google_protobuf_Duration \in FieldTypes

\* A finished conversion with Timestamp fields in two messages, a Duration
\* field, and the two imports, the duration's first.
C10_Witness ==
    /\ pc = "done"
    /\ protoFile.Imports = <<"google/protobuf/duration.proto", "google/protobuf/timestamp.proto">>
    /\ \E a, b \in DOMAIN protoFile.Messages :
          /\ a # b
          /\ \E f \in DOMAIN protoFile.Messages[a].Fields :
                protoFile.Messages[a].Fields[f].Type = Lit.google_protobuf_Timestamp
          /\ \E f \in DOMAIN protoFile.Messages[b].Fields :
                protoFile.Messages[b].Fields[f].Type = Lit.google_protobuf_Timestamp

\* The upper bounds of the schemas that are numbers.
NumericBounds == {"0", "1", "2", "5"}

\* The label of a sequence element as the occurrence rule gives it: the
\* upper bound is looked at first, the lower bound after it.
LabelByOccurrence(minOccurs, maxOccurs) ==
    IF maxOccurs = "unbounded" \/ (maxOccurs \in NumericBounds /\ maxOccurs # "1")
    THEN FieldLabelRepeated
    ELSE IF minOccurs = "0" THEN FieldLabelOptional
    ELSE FieldLabelRequired

Filled(parts) == SelectSeq(parts, LAMBDA part : part # <<>>)

\* The package of a namespace that is http:// or https:// followed by the
\* segments with "/" between them, the first segment not empty.  The
\* dot-separated components of the first segment, joined by dots again,
\* are the first segment.
HttpPackage(segments) ==
    IF Len(segments) = 2 THEN segments[2]
    ELSE IF Len(segments) > 1 /\ segments[Len(segments)] # <<>> THEN segments[Len(segments)]
    ELSE JoinWith(<<segments[1]>> \o Filled(Tail(segments)), ".")

\* C12: for a target namespace that is http:// or https:// followed by
\* segments separated by "/", the package is the second segment when there
\* are two segments, else the last segment when there are several and it
\* is not empty, else the first segment's components and the other
\* non-empty segments joined by dots.
C12_HttpPackage ==
    pc # "start" =>
        \A scheme \in {Lit.httpScheme, Lit.httpsScheme}, segments \in SegmentSeqs :
            (schema.TargetNamespace = scheme \o JoinWith(segments, "/") /\ segments[1] # <<>>)
                => protoFile.Package = HttpPackage(segments)

\* A finished conversion that took the fallback: three segments of which
\* the last is empty, after https://.
C12_Witness ==
    /\ pc = "done"
    /\ schema.TargetNamespace =
           Lit.httpsScheme \o JoinWith(<<Nm.example_com, Nm.simple, <<>>>>, "/")
    /\ protoFile.Package = JoinWith(<<Nm.example_com, Nm.simple>>, ".")

\* The last of the segments that are not empty, urn itself being the first
\* segment of a namespace that starts with urn: .
LastFilled(segments) ==
    LET filled == Filled(<<SubSeq(Lit.urnColon, 1, 3)>> \o segments)
    IN  filled[Len(filled)]

\* C13: for a target namespace that is urn: followed by segments separated
\* by ":", not all of them empty, the package is the last segment that is
\* not empty, also when the namespace ends in ":".
C13_UrnLastNonEmpty ==
    pc # "start" =>
        \A segments \in SegmentSeqs :
            (schema.TargetNamespace = Lit.urnColon \o JoinWith(segments, ":")
                /\ Filled(segments) # <<>>)
                => protoFile.Package = LastFilled(segments)

\* The package of such a namespace is its last segment, empty or not.
C13_UrnLastSegment ==
    pc # "start" =>
        \A segments \in SegmentSeqs :
            schema.TargetNamespace = Lit.urnColon \o JoinWith(segments, ":")
                => protoFile.Package = segments[Len(segments)]

\* A finished conversion of a schema whose namespace is urn:simple:v1: ,
\* with the empty package.
C13_EmptyPackage ==
    /\ pc = "done"
    /\ schema.TargetNamespace = Lit.urnColon \o JoinWith(<<Nm.simple, Nm.v1, <<>>>>, ":")
    /\ protoFile.Package = <<>>

\* The rename map when the k-th declaration has been processed: the
\* source names recorded so far and, for each, the final name recorded
\* last.
Recorded(k) == { Processed[j].source : j \in 1..k }

FinalOf(name, k) ==
    LET last == CHOOSE j \in 1..k :
                    /\ Processed[j].source = name
                    /\ \A h \in (j + 1)..k : Processed[h].source # name
    IN  Processed[last].final

\* The type a custom declared type resolves to for a field of the k-th
\* processed declaration: the rename map's entry for the cleaned name,
\* else its entry for the PascalCase form of the cleaned name, else the
\* cleaned name.
Resolved(cleanName, k) ==
    IF cleanName \in Recorded(k) THEN FinalOf(cleanName, k)
    ELSE IF toPascalCase(cleanName) \in Recorded(k) THEN FinalOf(toPascalCase(cleanName), k)
    ELSE cleanName

C15_SchemaUnchanged == [][schema' = schema]_vars

\* What Convert changes in the schema is at most the name of the inline
\* complex type of the element the third pass is at, which becomes the
\* element's name when it was empty.
C15_OnlyInlineNameWritten ==
    [][\/ schema' = schema
       \/ /\ pc = "elements"
          /\ Deref(schema.Elements[i].ComplexType).Name = <<>>
          /\ schema' = [schema EXCEPT !.Elements[i].ComplexType[1].Name =
                                          schema.Elements[i].Name]]_vars

\* A finished conversion after which the inline complex type of element
\* person has the name person; it has no name in any schema Convert is
\* given.
C15_InlineNameWritten ==
    /\ pc = "done"
    /\ \E e \in DOMAIN schema.Elements :
          /\ schema.Elements[e].Name = Nm.person
          /\ schema.Elements[e].ComplexType # NilPtr
          /\ Deref(schema.Elements[e].ComplexType).Name = Nm.person

\* The names of the enums and messages of a ProtoFile, and the names of
\* the values of its enums.
TypeNamesOf(file) ==
    { file.Enums[e].Name : e \in DOMAIN file.Enums }
        \cup { file.Messages[m].Name : m \in DOMAIN file.Messages }

ValueNamesOf(file) ==
    UNION { { file.Enums[e].Values[v].Name : v \in DOMAIN file.Enums[e].Values } :
            e \in DOMAIN file.Enums }

EarlierTypeNames == UNION { TypeNamesOf(returned[r]) : r \in DOMAIN returned }

EarlierValueNames == UNION { ValueNamesOf(returned[r]) : r \in DOMAIN returned }

\* C16: a Converter that converts one schema after another keeps what it
\* has reserved: the names of the enums, messages and enum values of the
\* files it returned earlier are still reserved, no name of the file in
\* the making is one of them, and a declaration whose formatted name is
\* taken, by an earlier file or earlier in this one, has that name
\* followed by the smallest integer from 2 on that gives a free name; a
\* declaration whose formatted name is free has it unsuffixed, as all do
\* that a fresh Converter processes first.
C16_ReservationsKept ==
    /\ EarlierTypeNames \subseteq c.usedEnumNames \cup c.usedMessageNames
    /\ EarlierValueNames \subseteq c.usedEnumValues
    /\ TypeNamesOf(protoFile) \cap EarlierTypeNames = {}
    /\ ValueNamesOf(protoFile) \cap EarlierValueNames = {}
    /\ \A k \in DOMAIN Processed :
          LET formatted == toPascalCase(Processed[k].source)
              taken     == EarlierTypeNames \cup FinalNamesBefore(k)
          IN  Processed[k].final =
                  IF formatted \notin taken THEN formatted
                  ELSE formatted \o Itoa(LeastFree(formatted, 2, taken))

\* The second conversion by one Converter has ended: complex type Person,
\* which the first conversion emitted as Person, is emitted as Person2,
\* and the sentinel of enum UserRole has a name with a number, the first
\* file having a value of its unnumbered name.
C16_Witness ==
    /\ pc = "done"
    /\ Len(returned) = 1
    /\ \E a \in DOMAIN returned[1].Messages, b \in DOMAIN protoFile.Messages :
          /\ msgSource[b].pass = "complexTypes"
          /\ SourceOfMessage(b).Name = Nm.Person
          /\ returned[1].Messages[a].Name = Nm.Person
          /\ protoFile.Messages[b].Name = Nm.Person \o <<"2">>
    /\ \E e \in DOMAIN protoFile.Enums :
          /\ protoFile.Enums[e].Values[1].Name # 
                 ScreamingSnake(protoFile.Enums[e].Name) \o Lit.UNSPECIFIED_suffix
          /\ (ScreamingSnake(protoFile.Enums[e].Name) \o Lit.UNSPECIFIED_suffix)
                 \in EarlierValueNames

\* The names of the values of all emitted enums, enum after enum.
AllValueNames ==
    Concat([e \in DOMAIN protoFile.Enums |->
              [v \in DOMAIN protoFile.Enums[e].Values |-> protoFile.Enums[e].Values[v].Name]])

\* C17: in every conversion by a fresh engine the names of the values of
\* all emitted enums are pairwise distinct, the sentinels included, also
\* when the values of a simple type repeat.
C17_ValueNamesDistinct == NoDuplicates(AllValueNames)

\* A finished conversion with an enum two of whose source values are the
\* same in upper case, and an enum whose unsuffixed sentinel name is the
\* name of a value of an earlier enum.
C17_Witness ==
    /\ pc = "done"
    /\ \E e \in DOMAIN protoFile.Enums :
          LET enumerations == Deref(SourceOfEnum(e).Restriction).Enumerations
          IN  \E a, b \in DOMAIN enumerations :
                 a # b /\ ToUpper(enumerations[a].Value) = ToUpper(enumerations[b].Value)
    /\ \E d, e \in DOMAIN protoFile.Enums :
          /\ d < e
          /\ \E v \in DOMAIN protoFile.Enums[d].Values :
                protoFile.Enums[d].Values[v].Name =
                    ScreamingSnake(protoFile.Enums[e].Name) \o Lit.UNSPECIFIED_suffix

\* snake_case as it is described: every character in lower case, an
\* underscore before every upper-case letter that is not the first
\* character, and an underscore for "-" and for ".".
RECURSIVE SnakeCaseFrom(_, _)
SnakeCaseFrom(name, k) ==
    IF k > Len(name) THEN <<>>
    ELSE (IF name[k] \in {"-", "."} THEN <<"_">>
          ELSE IF k > 1 /\ IsUpperRune(name[k]) THEN <<"_", ToLowerRune(name[k])>>
          ELSE <<ToLowerRune(name[k])>>)
         \o SnakeCaseFrom(name, k + 1)

SnakeCaseOf(name) == SnakeCaseFrom(name, 1)

\* The names of the sentinel and of the first k source values of the e-th
\* enum.
ValuesOfUpTo(e, k) == { protoFile.Enums[e].Values[v].Name : v \in 1..(k + 1) }

C19_FieldNamesSnakeCase ==
    /\ ~c.useCamelCase /\ ~c.usePascalCase
    /\ \A m \in DOMAIN protoFile.Messages :
          LET names == DeclaredNames(SourceOfMessage(m))
          IN  \A f \in DOMAIN protoFile.Messages[m].Fields :
                 protoFile.Messages[m].Fields[f].Name = SnakeCaseOf(names[f])

\* A finished conversion with a message two of whose fields, made from
\* firstName and first-name, are both named first_name, and a message with
\* a field named ttl__max made from ttl.Max.
C19_Witness ==
    /\ pc = "done"
    /\ \E m \in DOMAIN protoFile.Messages :
          LET names  == DeclaredNames(SourceOfMessage(m))
              fields == protoFile.Messages[m].Fields
          IN  \E f, g \in DOMAIN fields :
                 /\ names[f] = Nm.firstName
                 /\ names[g] = Nm.first_name
                 /\ fields[f].Name = <<"f", "i", "r", "s", "t", "_", "n", "a", "m", "e">>
                 /\ fields[g].Name = fields[f].Name
    /\ \E m \in DOMAIN protoFile.Messages :
          \E f \in DOMAIN protoFile.Messages[m].Fields :
              /\ DeclaredNames(SourceOfMessage(m))[f] = Nm.ttl_max
              /\ protoFile.Messages[m].Fields[f].Name = <<"t", "t", "l", "_", "_", "m", "a", "x">>

\* C20: the command line accepts --camel-case and --pascal-case, and the
\* field made from firstName is named firstName in a run with
\* --camel-case, FirstName in a run with --pascal-case and first_name in a
\* run with neither.
C20_NamingFlags ==
    /\ (args \cap {"camel-case", "pascal-case"} # {}
            /\ args \subseteq DefinedFlags \cup {"camel-case", "pascal-case"})
          => pc # "exit2"
    /\ \A m \in DOMAIN protoFile.Messages :
          LET names == DeclaredNames(SourceOfMessage(m))
          IN  \A f \in DOMAIN protoFile.Messages[m].Fields :
                 names[f] = Nm.firstName
                     => protoFile.Messages[m].Fields[f].Name =
                            IF "pascal-case" \in args
                            THEN <<"F", "i", "r", "s", "t", "N", "a", "m", "e">>
                            ELSE IF "camel-case" \in args THEN Nm.firstName
                            ELSE <<"f", "i", "r", "s", "t", "_", "n", "a", "m", "e">>

\* A run with --camel-case as its only flag has ended with status 2, no
\* file converted.
C20_CamelCaseRefused ==
    /\ args = {"camel-case"}
    /\ pc = "exit2"
    /\ protoFile = NoProtoFile

\* The runs main lets through have none of the two flags and name the
\* field made from firstName first_name.
C20_OnlySnakeCase ==
    /\ pc \notin {"main", "exit2"} => args \cap {"camel-case", "pascal-case"} = {}
    /\ \A m \in DOMAIN protoFile.Messages :
          LET names == DeclaredNames(SourceOfMessage(m))
          IN  \A f \in DOMAIN protoFile.Messages[m].Fields :
                 protoFile.Messages[m].Fields[f].Name = SnakeCaseOf(names[f])

\* C21: every field made from an element of a choice is optional, whatever
\* the bounds and the declared type of the element.
C21_ChoiceFieldsOptional ==
    \A m \in DOMAIN protoFile.Messages :
        LET source == SourceOfMessage(m)
            first  == Len(GroupElements(source.Sequence))
        IN  \A k \in DOMAIN GroupElements(source.Choice) :
               protoFile.Messages[m].Fields[first + k].Label = FieldLabelOptional

\* A finished conversion with a message whose choice has an element of
\* maxOccurs "unbounded" and an element typed with an array wrapper of the
\* schema, both made optional fields, the second with the wrapper's inner
\* type.
C21_Witness ==
    /\ pc = "done"
    /\ \E m \in DOMAIN protoFile.Messages :
          LET source  == SourceOfMessage(m)
              first   == Len(GroupElements(source.Sequence))
              choices == GroupElements(source.Choice)
              fields  == protoFile.Messages[m].Fields
          IN  /\ \E k \in DOMAIN choices :
                    /\ choices[k].MaxOccurs = "unbounded"
                    /\ fields[first + k].Label = FieldLabelOptional
              /\ \E k \in DOMAIN choices :
                    /\ ArrayOfHits(CleanTypeName(choices[k].Type)) # {}
                    /\ fields[first + k].Type = Nm.Foo
                    /\ fields[first + k].Label = FieldLabelOptional

\* The formatted name of the v-th value of the e-th enum, the sentinel
\* being the first, and the names of the values emitted before it.
FormattedValueName(e, v) ==
    ToUpper(SnakeCaseOf(protoFile.Enums[e].Name))
        \o (IF v = 1 THEN Lit.UNSPECIFIED_suffix
            ELSE <<"_">> \o ToUpper(Deref(SourceOfEnum(e).Restriction).Enumerations[v - 1].Value))

ValuesEmittedBefore(e, v) == ValuesBefore(e) \cup ValuesOfUpTo(e, v - 2)

\* C22 as stated: a value whose formatted name is the name of a value
\* emitted before it has that name followed by the smallest of 2, 3, ...
\* that gives a name no such value has.
C22_SuffixFromTwo ==
    \A e \in DOMAIN protoFile.Enums :
        \A v \in DOMAIN protoFile.Enums[e].Values :
            FormattedValueName(e, v) \in ValuesEmittedBefore(e, v)
                => protoFile.Enums[e].Values[v].Name =
                       FormattedValueName(e, v)
                           \o Itoa(LeastFree(FormattedValueName(e, v), 2, ValuesEmittedBefore(e, v)))

\* C22: a value whose formatted name is the name of a value emitted before
\* it has that name followed by the smallest of 1, 2, 3, ... that gives a
\* name no such value has.
C22_SuffixFromOne ==
    \A e \in DOMAIN protoFile.Enums :
        \A v \in DOMAIN protoFile.Enums[e].Values :
            FormattedValueName(e, v) \in ValuesEmittedBefore(e, v)
                => protoFile.Enums[e].Values[v].Name =
                       FormattedValueName(e, v)
                           \o Itoa(LeastFree(FormattedValueName(e, v), 1, ValuesEmittedBefore(e, v)))

\* A finished conversion with an enum made from Status{ACTIVE, active}:
\* its second source value is named STATUS_ACTIVE1.
C22_Witness ==
    /\ pc = "done"
    /\ \E e \in DOMAIN protoFile.Enums :
          /\ protoFile.Enums[e].Name = Nm.Status
          /\ Len(protoFile.Enums[e].Values) = 3
          /\ protoFile.Enums[e].Values[3].Name =
                 <<"S", "T", "A", "T", "U", "S", "_", "A", "C", "T", "I", "V", "E", "1">>

\* The second pass of Convert is past the k-th complex type.
ComplexTypeDone(k) ==
    pc \in {"elements", "imports", "done"} \/ (pc = "complexTypes" /\ k < i)

\* The k-th complex type was made a message.
EmittedAsMessage(k) ==
    \E m \in DOMAIN msgSource : msgSource[m] = [pass |-> "complexTypes", index |-> k]

\* C23: a top-level complex type is skipped as an array wrapper if and
\* only if its cleaned name starts with ArrayOf and its content is exactly
\* one sequence of exactly one element whose maxOccurs is unbounded or
\* above 1; with a choice, an attribute or maxOccurs "0" it is emitted as
\* a message.
C23_WrapperIffPattern ==
    \A k \in DOMAIN schema.ComplexTypes :
        ComplexTypeDone(k) =>
            (EmittedAsMessage(k) <=> ~MatchesArrayWrapperPattern(schema.ComplexTypes[k]))

\* What the converter skips: a complex type whose cleaned name starts with
\* ArrayOf and whose sequence has exactly one element with a maxOccurs
\* other than "" and "1", whatever its choice and attributes.
C23_WrapperAsTested ==
    \A k \in DOMAIN schema.ComplexTypes :
        ComplexTypeDone(k) =>
            (EmittedAsMessage(k) <=>
                ~(/\ HasPrefix(CleanTypeName(schema.ComplexTypes[k].Name), Lit.ArrayOf)
                  /\ schema.ComplexTypes[k].Sequence # NilPtr
                  /\ Len(Deref(schema.ComplexTypes[k].Sequence).Elements) = 1
                  /\ Deref(schema.ComplexTypes[k].Sequence).Elements[1].MaxOccurs
                         \notin {"", "1"}))

\* A finished conversion in which complex type ArrayOfFoo, with a sequence
\* of one unbounded element, a choice and an attribute, was not made a
\* message.
C23_SkippedWithAttribute ==
    /\ pc = "done"
    /\ schema.ComplexTypes[1].Name = Nm.ArrayOfFoo
    /\ schema.ComplexTypes[1].Sequence # NilPtr
    /\ Len(Deref(schema.ComplexTypes[1].Sequence).Elements) = 1
    /\ Deref(schema.ComplexTypes[1].Sequence).Elements[1].MaxOccurs = "unbounded"
    /\ schema.ComplexTypes[1].Choice # NilPtr
    /\ schema.ComplexTypes[1].Attributes # <<>>
    /\ ~EmittedAsMessage(1)

\* The declared types of the elements and attributes of a complex type.
TypesDeclaredIn(complexType) ==
    { e.Type : e \in Range(GroupElements(complexType.Sequence))
                       \cup Range(GroupElements(complexType.Choice)) }
        \cup { a.Type : a \in Range(complexType.Attributes) }

\* C24: Convert returns a non-nil output file and no error: the type
\* mapper gives no error for any declared type of the schema, none of the
\* error outcomes "failed to convert complex type", "failed to convert
\* element" and "has no complex type" is reached, and the call that has
\* returned has returned a proto3 file.
C24_NoError ==
    /\ err = NilPtr
    /\ pc # "failed"
    /\ \A k \in DOMAIN schema.ComplexTypes :
           \A t \in TypesDeclaredIn(schema.ComplexTypes[k]) : MapXSDTypeErr(t) = NilPtr
    /\ \A k \in DOMAIN schema.Elements :
           schema.Elements[k].ComplexType # NilPtr
               => convertElementToMessageErr(schema.Elements[k]) = NilPtr
    /\ pc = "done" => protoFile # NoProtoFile /\ protoFile.Syntax = "proto3"

\* Convert has returned on a schema with a top-level element that has no
\* inline complex type and a complex type with a field of a type the
\* mapper's table does not have.
C24_Witness ==
    /\ pc = "done"
    /\ err = NilPtr
    /\ \E k \in DOMAIN schema.Elements : schema.Elements[k].ComplexType = NilPtr
    /\ \E k \in DOMAIN schema.ComplexTypes :
           /\ ~isArrayOfPattern(schema.ComplexTypes[k])
           /\ \E t \in TypesDeclaredIn(schema.ComplexTypes[k]) : ~IsBuiltInType(t)

\* In a conversion whose third pass is over, each top-level element with
\* an inline complex type has one message and every other element none.
OnePerInlineElement ==
    pc \in {"imports", "done"} =>
        \A k \in DOMAIN schema.Elements :
            Cardinality({ m \in DOMAIN msgSource :
                            msgSource[m] = [pass |-> "elements", index |-> k] })
                = IF schema.Elements[k].ComplexType # NilPtr THEN 1 ELSE 0

\* An iteration of the third pass: an element with an inline complex type
\* adds one message at the end of the list, named after the inline type's
\* name when that is not empty and after the element's name otherwise; any
\* other element adds none.
ThirdPassIteration ==
    pc = "elements" /\ i <= Len(schema.Elements) =>
        LET element   == schema.Elements[i]
            taken     == Range(EnumNames) \cup Range(MessageNames)
            n         == Len(protoFile.Messages)
        IN  IF element.ComplexType # NilPtr
            THEN LET sourceName == IF Deref(element.ComplexType).Name # <<>>
                                   THEN Deref(element.ComplexType).Name
                                   ELSE element.Name
                     formatted  == toPascalCase(sourceName)
                 IN  /\ Len(protoFile'.Messages) = n + 1
                     /\ SubSeq(protoFile'.Messages, 1, n) = protoFile.Messages
                     /\ protoFile'.Messages[n + 1].Name =
                            IF formatted \notin taken THEN formatted
                            ELSE formatted \o Itoa(LeastFree(formatted, 2, taken))
            ELSE protoFile'.Messages = protoFile.Messages

\* C25: the third pass emits one more message for each top-level element
\* that has an inline complex type and none for any other element; the
\* message is named from the inline type's name when that is not empty and
\* from the element's name otherwise, and it follows every message of the
\* second pass in the list.
C25_InlineElementMessages ==
    [][ThirdPassIteration /\ TopLevelTypesFirst' /\ OnePerInlineElement']_vars

\* A finished conversion with a message of the second pass followed by the
\* messages of element foos, named ArrayOfFoo after its inline type, and of
\* element person, whose inline type has no name, and with an element
\* without inline type.
C25_Witness ==
    /\ pc = "done"
    /\ \E a, b, d \in DOMAIN msgSource :
          /\ a < b /\ b # d
          /\ msgSource[a].pass = "complexTypes"
          /\ msgSource[b].pass = "elements"
          /\ schema.Elements[msgSource[b].index].Name = Nm.foos
          /\ protoFile.Messages[b].Name = Nm.ArrayOfFoo
          /\ msgSource[d].pass = "elements"
          /\ schema.Elements[msgSource[d].index].Name = Nm.person
          /\ protoFile.Messages[d].Name = toPascalCase(Nm.person)
    /\ \E k \in DOMAIN schema.Elements : schema.Elements[k].ComplexType = NilPtr

\* The message made from the k-th top-level complex type, 0 when it has
\* none.
MessageOfComplexType(k) ==
    IF \E m \in DOMAIN msgSource : msgSource[m] = [pass |-> "complexTypes", index |-> k]
    THEN CHOOSE m \in DOMAIN msgSource : msgSource[m] = [pass |-> "complexTypes", index |-> k]
    ELSE 0

\* The top-level complex types called name, when none of them is skipped
\* as an array wrapper.
ComplexTypesNamed(name) ==
    LET named == { b \in DOMAIN schema.ComplexTypes : schema.ComplexTypes[b].Name = name }
    IN  IF \E b \in named : \/ MatchesArrayWrapperPattern(schema.ComplexTypes[b])
                            \/ isArrayOfPattern(schema.ComplexTypes[b])
        THEN {}
        ELSE named

\* C26: the resolved type of a field does not depend on declaration
\* order: a field of top-level complex type A whose declared type names a
\* top-level complex type B of the schema has B's final message name as
\* its type, whether B is declared before A or after it.
C26_OrderIndependent ==
    pc = "done" =>
        \A a \in DOMAIN schema.ComplexTypes :
            MessageOfComplexType(a) # 0 =>
                LET declared == DeclaredTypes(schema.ComplexTypes[a])
                    fields   == protoFile.Messages[MessageOfComplexType(a)].Fields
                IN  \A f \in DOMAIN declared :
                        LET named == ComplexTypesNamed(CleanTypeName(declared[f]))
                        IN  (~IsBuiltInType(declared[f]) /\ named # {}) =>
                                \E b \in named :
                                    fields[f].Type
                                        = protoFile.Messages[MessageOfComplexType(b)].Name

\* The same for the complex types declared before A only: the field has
\* the final name of the last of them.
C26_EarlierResolved ==
    pc = "done" =>
        \A a \in DOMAIN schema.ComplexTypes :
            MessageOfComplexType(a) # 0 =>
                LET declared == DeclaredTypes(schema.ComplexTypes[a])
                    fields   == protoFile.Messages[MessageOfComplexType(a)].Fields
                IN  \A f \in DOMAIN declared :
                        LET earlier == { b \in ComplexTypesNamed(CleanTypeName(declared[f])) :
                                           b < a }
                        IN  (~IsBuiltInType(declared[f]) /\ earlier # {}) =>
                                \E b \in earlier :
                                    /\ \A d \in earlier : d <= b
                                    /\ fields[f].Type
                                           = protoFile.Messages[MessageOfComplexType(b)].Name

\* A finished conversion of complex types person, Status and Person in
\* that order: Person is emitted as Person2 and the field of Status
\* declared with tns:Person has type Person, the message made from person.
C26_ForwardReferenceElsewhere ==
    /\ pc = "done"
    /\ Len(schema.ComplexTypes) = 3
    /\ schema.ComplexTypes[1].Name = Nm.person
    /\ schema.ComplexTypes[2].Name = Nm.Status
    /\ schema.ComplexTypes[3].Name = Nm.Person
    /\ schema.SimpleTypes = <<>>
    /\ protoFile.Messages[1].Name = Nm.Person
    /\ protoFile.Messages[3].Name = Nm.Person \o <<"2">>
    /\ DeclaredTypes(schema.ComplexTypes[2])[1] = Tns(Nm.Person)
    /\ protoFile.Messages[2].Fields[1].Type = Nm.Person

\* C27: within one conversion the rename map is write-once per source
\* name: once it has an entry for a source name, no step of Convert
\* changes or removes that entry.
C27_WriteOnce ==
    [][\A name \in DOMAIN c.typeRenameMap :
          /\ name \in DOMAIN c'.typeRenameMap
          /\ c'.typeRenameMap[name] = c.typeRenameMap[name]]_vars

\* What changes an entry: the step that emits an enum or a message for
\* another declaration of the same source name; the entry becomes the name
\* of what the step emits.
C27_RewrittenBySameName ==
    [][\A name \in DOMAIN c.typeRenameMap :
          /\ name \in DOMAIN c'.typeRenameMap
          /\ c'.typeRenameMap[name] # c.typeRenameMap[name] =>
                IF pc = "simpleTypes"
                THEN /\ Len(protoFile'.Enums) = Len(protoFile.Enums) + 1
                     /\ c'.typeRenameMap[name] = protoFile'.Enums[Len(protoFile'.Enums)].Name
                     /\ name = schema.SimpleTypes[i].Name
                ELSE /\ Len(protoFile'.Messages) = Len(protoFile.Messages) + 1
                     /\ c'.typeRenameMap[name]
                            = protoFile'.Messages[Len(protoFile'.Messages)].Name
                     /\ name = IF pc = "complexTypes" THEN schema.ComplexTypes[i].Name
                               ELSE Deref(schema'.Elements[i].ComplexType).Name]_vars

\* A finished conversion of complex type person and element person with an
\* unnamed inline complex type: the messages are Person and Person2 and the
\* rename map's entry for person, Person after the second pass, is Person2.
C27_EntryReplaced ==
    /\ pc = "done"
    /\ Len(schema.ComplexTypes) = 1 /\ schema.ComplexTypes[1].Name = Nm.person
    /\ Len(schema.Elements) = 1 /\ schema.Elements[1].Name = Nm.person
    /\ MessageNames = <<Nm.Person, Nm.Person \o <<"2">> >>
    /\ c.typeRenameMap[Nm.person] = Nm.Person \o <<"2">>

\* The names of the top-level complex types the second pass skips.
SkippedWrapperNames ==
    { schema.ComplexTypes[k].Name :
        k \in { j \in DOMAIN schema.ComplexTypes : isArrayOfPattern(schema.ComplexTypes[j]) } }

\* C28: no emitted field has as its type the name of a complex type that
\* is skipped as an array wrapper, the fields made from attributes
\* included.
C28_NoFieldOfWrapperType ==
    \A m \in DOMAIN protoFile.Messages :
        \A f \in DOMAIN protoFile.Messages[m].Fields :
            protoFile.Messages[m].Fields[f].Type \notin SkippedWrapperNames

\* The same for the fields made from the elements of sequences and
\* choices only.
C28_NoElementOfWrapperType ==
    \A m \in DOMAIN protoFile.Messages :
        LET source == SourceOfMessage(m)
        IN  \A f \in 1..(Len(GroupElements(source.Sequence))
                            + Len(GroupElements(source.Choice))) :
                protoFile.Messages[m].Fields[f].Type \notin SkippedWrapperNames

\* A finished conversion of the wrapper ArrayOfFoo and complex type Status
\* with attribute foos of type tns:ArrayOfFoo: the only message is Status
\* and its field foos has type ArrayOfFoo.
C28_AttributeOfWrapperType ==
    /\ pc = "done"
    /\ Len(schema.ComplexTypes) = 2
    /\ isArrayOfPattern(schema.ComplexTypes[1])
    /\ schema.ComplexTypes[2].Name = Nm.Status
    /\ schema.ComplexTypes[2].Attributes[1].Type = Tns(Nm.ArrayOfFoo)
    /\ MessageNames = <<Nm.Status>>
    /\ protoFile.Messages[1].Fields[3].Name = Nm.foos
    /\ protoFile.Messages[1].Fields[3].Type = Nm.ArrayOfFoo

\* The names of the messages, and of the enums, of the files earlier calls
\* returned and of the file in the making.
EmittedMessageNames ==
    UNION { Range([m \in DOMAIN file.Messages |-> file.Messages[m].Name]) :
            file \in Range(returned) \cup {protoFile} }

EmittedEnumNames ==
    UNION { Range([e \in DOMAIN file.Enums |-> file.Enums[e].Name]) :
            file \in Range(returned) \cup {protoFile} }

NameSetsApart ==
    /\ c.usedMessageNames \cap c.usedEnumNames = {}
    /\ EmittedMessageNames \subseteq c.usedMessageNames
    /\ EmittedEnumNames \subseteq c.usedEnumNames

\* C29: over any sequence of Convert calls on one Converter the set of
\* used message names and the set of used enum names are disjoint, no step
\* takes a name out of either, and every message name emitted so far is in
\* the first and every enum name emitted so far in the second, so each
\* emitted name is in exactly one of them.
C29_NameSetsDisjointGrowing ==
    [][/\ NameSetsApart'
       /\ c.usedMessageNames \subseteq c'.usedMessageNames
       /\ c.usedEnumNames \subseteq c'.usedEnumNames]_vars

\* The second conversion has ended: the first emitted message Status, the
\* second emitted a simple type Status as enum Status2, and both sets have
\* grown in the second.
C29_Witness ==
    /\ pc = "done"
    /\ Len(returned) = 1
    /\ Nm.Status \in Range([m \in DOMAIN returned[1].Messages |-> returned[1].Messages[m].Name])
    /\ \E e \in DOMAIN protoFile.Enums :
          SourceOfEnum(e).Name = Nm.Status /\ protoFile.Enums[e].Name = Nm.Status2
    /\ protoFile.Messages # <<>>
    /\ Nm.Status \in c.usedMessageNames /\ Nm.Status \notin c.usedEnumNames
    /\ Nm.Status2 \in c.usedEnumNames /\ Nm.Status2 \notin c.usedMessageNames

\* The files of the schemas of a tree, the root's first.
RECURSIVE TreeFiles(_)
TreeFiles(tree) ==
    <<tree.file>> \o Concat([k \in DOMAIN tree.ImportedSchemas |->
                                TreeFiles(tree.ImportedSchemas[k])])

\* ParseFileWithImports has returned.
Returned == stack = <<>> /\ result # NilPtr

\* No file is handed to ParseFile twice, and no file is the file of two
\* schemas of the tree returned.
ParsedAtMostOnce ==
    /\ NoDuplicates(opened)
    /\ (Returned /\ result.schema # NilPtr) => NoDuplicates(TreeFiles(Deref(result.schema)))

\* A call on a path already visited leaves ImportedSchemas of its caller
\* and the files parsed as they are.
VisitedAddsNothing ==
    (/\ Len(stack) > 1
     /\ stack[Len(stack)].at = "enter"
     /\ Lookup(stack[Len(stack)].filePath) \in Range(opened))
        => /\ opened' = opened
           /\ Len(stack') = Len(stack) - 1
           /\ stack'[Len(stack')].schema = stack[Len(stack) - 1].schema

\* C30: ParseFileWithImports returns on every set of schema files, those
\* that import or include each other in a cycle or themselves included;
\* each file is parsed at most once in the call, and a file already
\* visited adds no subtree to ImportedSchemas.
C30_TerminatesParsingOnce ==
    /\ <>Returned
    /\ []ParsedAtMostOnce
    /\ [][VisitedAddsNothing]_vars

\* The call on a.xsd has returned a tree: a.xsd imports b.xsd and includes
\* sub/c.xsd, b.xsd imports a.xsd and includes itself, c.xsd imports
\* ../b.xsd and includes itself; the three files were parsed once each and
\* the tree is a.xsd with b.xsd and sub/c.xsd under it and nothing under
\* those.
C30_Witness ==
    /\ Returned
    /\ result.err = NilPtr
    /\ files[Fs.a] = XsdFile(<<Import(<<>>, Fs.b_xsd)>>, <<Include(Fs.sub_c_xsd)>>)
    /\ files[Fs.b] = XsdFile(<<Import(<<>>, Fs.a_xsd)>>, <<Include(Fs.b_xsd)>>)
    /\ files[Fs.c] = XsdFile(<<Import(<<>>, Fs.up_b_xsd)>>, <<Include(Fs.c_xsd)>>)
    /\ opened = <<Fs.a, Fs.b, Fs.c>>
    /\ Deref(result.schema) =
           [file |-> Fs.a,
            ImportedSchemas |-> <<[file |-> Fs.b, ImportedSchemas |-> <<>>],
                                  [file |-> Fs.c, ImportedSchemas |-> <<>>]>>]
=============================================================================
